---- MODULE Spec2Model ----
(***************************************************************************)
(* Model of the artifact registry service: the relational store            *)
(* (artifacts, ratings, lineage edges, request events), the data-access    *)
(* operations of src/api/db/crud.py and the HTTP handlers of               *)
(* src/api/routes together with the logging middleware of src/api/main.py. *)
(*                                                                         *)
(* Conventions.  Scores are integers in thousandths (0.8 is 800): every    *)
(* stored net score is the result of round(x, 3).  An identifier is the    *)
(* ordinal of the uuid4 that generate_uuid drew (uuid4 values are fresh).  *)
(* A URL or a name is the sequence of its "/"-separated segments after the *)
(* scheme.  Rows of a table are kept in creation order, which is the order *)
(* of their created_at column.  None is the value None, and Null where the *)
(* column or parameter holds a string.                                     *)
(***************************************************************************)
EXTENDS Integers, Sequences, FiniteSets, TLC

\* ------------------------------------------------------------------ bounds
MaxId == 2
MaxEdges == 2
MaxRatings == 2
MaxEvents == 1

\* ------------------------------------------------------------ value domains
None == -1

\* None in an Optional[str] column or parameter
Null == "null"

UrlBase == <<"huggingface.co", "org", "base">>
UrlTuned == <<"huggingface.co", "org", "tuned">>

\* the model ids (names "org/name") that lineage detection can report
\* a URL of neither HuggingFace nor GitHub
UrlOther == <<"example.com", "models", "x">>

RefBase == <<"org", "base">>
RefTuned == <<"org", "tuned">>

Ids == 1 .. MaxId

VARIABLES artifacts, ratings, edges, events, nextId, resp, inflight

vars == <<artifacts, ratings, edges, events, nextId, resp, inflight>>

\* ------------------------------------------------------------ requests in flight
\* Every request has a session of its own (get_db) and each crud call commits
\* by itself; no transaction or lock spans two of them. The handlers are
\* coroutines that never await, so one server process runs a handler from
\* start to end; server processes that share DATABASE_URL (uvicorn workers,
\* several hosts) interleave between any two commits. inflight holds, for
\* each client served at once, how far its ingest has come and the handler's
\* local variables.
Clients == 2

Idle ==
  [pc |-> "idle", id |-> None, name |-> <<>>, net |-> None, found |-> {},
   treescore |-> None]

NoRequests == [c \in 1 .. Clients |-> Idle]

\* ------------------------------------------------------------ small helpers
Or0(x) == IF x = None THEN 0 ELSE x

Last(s) == s[Len(s)]

IdStr(id) == ToString(id)

\* sum(...) of a sequence of integers
RECURSIVE SumSeq(_)
SumSeq(s) == IF s = <<>> THEN 0 ELSE Head(s) + SumSeq(Tail(s))

\* ascending enumeration of a finite set of integers
RECURSIVE SortedSeq(_)
SortedSeq(S) ==
  IF S = {} THEN <<>>
  ELSE LET m == CHOOSE x \in S : \A y \in S : x <= y
       IN <<m>> \o SortedSeq(S \ {m})

\* ------------------------------------------------------------ persistence
\* mutant: a new row takes the lowest primary key that is free now
generate_uuid_lowest_free ==
  CHOOSE i \in 1 .. nextId : i \notin DOMAIN artifacts /\ \A j \in 1 .. i - 1 : j \in DOMAIN artifacts

\* str(uuid.uuid4()): a key no row has had before
generate_uuid == nextId

crud_create_artifact(arts, id, t, name, url, size) ==
  [i \in DOMAIN arts \cup {id} |->
     IF i = id
     THEN [type |-> t, name |-> name, url |-> url, size_bytes |-> size,
           download_url |-> Null, s3_key |-> Null]
     ELSE arts[i]]

\* Optional[Artifact] as the set of matching primary keys: {} is None
crud_get_artifact(arts, id) == {i \in DOMAIN arts : i = id}

get_artifact_by_type_and_id(arts, t, id) ==
  {i \in DOMAIN arts : i = id /\ arts[i].type = t}

\* ORDER BY created_at DESC, then OFFSET, then LIMIT: primary keys, newest first
DescSeq(S) ==
  IF S = {} THEN <<>>
  ELSE LET top == CHOOSE x \in S : \A y \in S : x >= y
       IN SelectSeq([k \in 1 .. top |-> top + 1 - k], LAMBDA i : i \in S)

crud_list_artifacts(arts, tfilter, limit, offset) ==
  LET all == DescSeq({i \in DOMAIN arts : tfilter = Null \/ arts[i].type = tfilter})
      lo == offset + 1
      hi == IF offset + limit < Len(all) THEN offset + limit ELSE Len(all)
  IN IF lo > hi THEN <<>> ELSE SubSeq(all, lo, hi)

count_artifacts(arts, tfilter) ==
  Cardinality({i \in DOMAIN arts : tfilter = Null \/ arts[i].type = tfilter})

\* db.delete(artifact): the ORM cascades to ratings, parent_edges, child_edges
crud_delete_artifact_rows(arts, id) == [i \in DOMAIN arts \ {id} |-> arts[i]]

cascade_ratings(rs, id) == SelectSeq(rs, LAMBDA r : r.artifact_id # id)

\* mutant: only the parent_edges relationship (edges where id is the child) cascades
cascade_edges_child_only(es, id) == SelectSeq(es, LAMBDA e : e.child_id # id)

cascade_edges(es, id) ==
  SelectSeq(es, LAMBDA e : e.parent_id # id /\ e.child_id # id)

update_artifact_download_url(arts, id, download_url, s3_key) ==
  [arts EXCEPT ![id].download_url = download_url, ![id].s3_key = s3_key]

\* mutant: the row is inserted twice
crud_create_rating_twice(rs, artifact_id, net_score, treescore) ==
  LET row == [artifact_id |-> artifact_id, net_score |-> net_score,
              treescore |-> treescore]
  IN Append(Append(rs, row), row)

crud_create_rating(rs, artifact_id, net_score, treescore) ==
  Append(rs, [artifact_id |-> artifact_id, net_score |-> net_score,
              treescore |-> treescore])

\* mutant: ORDER BY created_at ascending, the oldest row first
crud_get_latest_rating_oldest(rs, artifact_id) ==
  LET idx == {k \in 1 .. Len(rs) : rs[k].artifact_id = artifact_id}
  IN IF idx = {} THEN {}
     ELSE {rs[CHOOSE k \in idx : \A j \in idx : k <= j]}

\* ORDER BY created_at DESC ... first(): the set holding the newest row, or {}
crud_get_latest_rating(rs, artifact_id) ==
  LET idx == {k \in 1 .. Len(rs) : rs[k].artifact_id = artifact_id}
  IN IF idx = {} THEN {}
     ELSE {rs[CHOOSE k \in idx : \A j \in idx : j <= k]}

crud_add_lineage_edge(es, parent_id, child_id) ==
  Append(es, [parent_id |-> parent_id, child_id |-> child_id])

\* WHERE id IN (parent ids): each parent artifact once, in table order
get_parents(arts, es, artifact_id) ==
  SortedSeq({i \in DOMAIN arts :
               \E k \in 1 .. Len(es) :
                  es[k].child_id = artifact_id /\ es[k].parent_id = i})

\* WHERE id IN (child ids): each child artifact once, in table order
get_children(arts, es, artifact_id) ==
  SortedSeq({i \in DOMAIN arts :
               \E k \in 1 .. Len(es) :
                  es[k].parent_id = artifact_id /\ es[k].child_id = i})

\* get_all_dependencies with its visited set, which every recursive call
\* shares and adds to: the list returned and the set as the call leaves it
RECURSIVE get_all_dependencies_visited(_, _, _, _)
RECURSIVE extend_all_deps(_, _, _, _, _, _)
get_all_dependencies_visited(arts, es, artifact_id, visited) ==
  IF artifact_id \in visited THEN [all_deps |-> <<>>, visited |-> visited]
  ELSE LET parents == get_parents(arts, es, artifact_id)
       IN extend_all_deps(arts, es, parents, 1, parents, visited \cup {artifact_id})

\* mutant: every parent is expanded with the visited set as the caller had
\* it, without what the calls for the parents before it added
RECURSIVE extend_all_deps_own_visited(_, _, _, _, _, _)
extend_all_deps_own_visited(arts, es, parents, k, all_deps, visited) ==
  IF k > Len(parents) THEN [all_deps |-> all_deps, visited |-> visited]
  ELSE LET r == get_all_dependencies_visited(arts, es, parents[k], visited)
       IN extend_all_deps_own_visited(arts, es, parents, k + 1,
                                      all_deps \o r.all_deps, visited)

\* for parent in parents: all_deps.extend(get_all_dependencies(parent.id, visited))
extend_all_deps(arts, es, parents, k, all_deps, visited) ==
  IF k > Len(parents) THEN [all_deps |-> all_deps, visited |-> visited]
  ELSE LET r == get_all_dependencies_visited(arts, es, parents[k], visited)
       IN extend_all_deps(arts, es, parents, k + 1, all_deps \o r.all_deps, r.visited)

\* the call with visited=None: the list of artifact ids returned
get_all_dependencies(arts, es, artifact_id) ==
  get_all_dependencies_visited(arts, es, artifact_id, {}).all_deps

\* ------------------------------------------------------------ metrics
\* mutant: a parent without a rating counts as a score of 0
compute_treescore_unrated_as_zero(arts, es, rs, artifact_id, tie) ==
  LET parents == get_parents(arts, es, artifact_id)
      parent_scores ==
        [k \in 1 .. Len(parents) |->
           IF crud_get_latest_rating(rs, parents[k]) = {} THEN 0
           ELSE (CHOOSE r \in crud_get_latest_rating(rs, parents[k]) : TRUE).net_score]
      total == SumSeq(parent_scores)
      n == Len(parent_scores)
  IN IF parents = <<>> THEN 0
     ELSE LET q == total \div n
              r == total % n
          IN IF 2 * r < n THEN q
             ELSE IF 2 * r > n THEN q + 1
             ELSE q + tie

\* round(sum / len, 3) in thousandths; a mean that falls exactly between two
\* thousandths goes up or down with the binary double nearest to it (tie)
compute_treescore(arts, es, rs, artifact_id, tie) ==
  LET parents == get_parents(arts, es, artifact_id)
      rated == SelectSeq(parents, LAMBDA p : crud_get_latest_rating(rs, p) # {})
      parent_scores ==
        [k \in 1 .. Len(rated) |->
           (CHOOSE r \in crud_get_latest_rating(rs, rated[k]) : TRUE).net_score]
      total == SumSeq(parent_scores)
      n == Len(parent_scores)
  IN IF parents = <<>> THEN 0
     ELSE IF n = 0 THEN 0
     ELSE LET q == total \div n
              r == total % n
          IN IF 2 * r < n THEN q
             ELSE IF 2 * r > n THEN q + 1
             ELSE q + tie

\* mutant: the threshold argument is what the net score is compared with
passes_quality_threshold_by_argument(net_score, threshold) ==
  ~(Or0(net_score) < threshold)

\* metrics.get("net_score", 0) < 0.1: net_score None is a dict without the key
passes_quality_threshold(net_score, threshold) == ~(Or0(net_score) < 100)

\* mutant: the gate lets every model through
gate_rejects_never(is_model, m) == FALSE

\* the quality gate of upload and ingest: metrics were computed for a model
\* and do not pass (callers pass threshold=0.5)
gate_rejects(is_model, m) ==
  is_model /\ m # None /\ ~passes_quality_threshold(m, 500)

\* ------------------------------------------------------------ lineage service
\* detect_parent_models: references found for model_id, itself discarded,
\* only ids of the form org/name kept
detect_parent_models(model_id, found) ==
  {p \in found : p # model_id /\ Len(p) >= 2}

\* mutant: a registered artifact matches a detected parent when the last
\* segments of their names are equal
create_lineage_for_artifact_short_name(arts, es, artifact_id, model_id, found) ==
  LET refs == detect_parent_models(model_id, found)
      all_artifacts == crud_list_artifacts(arts, Null, 1000, 0)
      match(ref) == {k \in 1 .. Len(all_artifacts) :
                       Last(arts[all_artifacts[k]].name) = Last(ref)}
      first(ref) == all_artifacts[CHOOSE k \in match(ref) : \A j \in match(ref) : k <= j]
      linked == {first(ref) : ref \in {x \in refs : match(x) # {}}} \ {artifact_id}
      linkedSeq == SortedSeq(linked)
  IN es \o [k \in 1 .. Len(linkedSeq) |->
              [parent_id |-> linkedSeq[k], child_id |-> artifact_id]]

\* the edges create_lineage_for_artifact adds for artifact_id: one per detected
\* parent whose id is the name of a registered artifact (newest first)
create_lineage_for_artifact(arts, es, artifact_id, model_id, found) ==
  LET refs == detect_parent_models(model_id, found)
      all_artifacts == crud_list_artifacts(arts, Null, 1000, 0)
      match(ref) == {k \in 1 .. Len(all_artifacts) : arts[all_artifacts[k]].name = ref}
      first(ref) == all_artifacts[CHOOSE k \in match(ref) : \A j \in match(ref) : k <= j]
      linked == {first(ref) : ref \in {x \in refs : match(x) # {}}} \ {artifact_id}
      linkedSeq == SortedSeq(linked)
  IN es \o [k \in 1 .. Len(linkedSeq) |->
              [parent_id |-> linkedSeq[k], child_id |-> artifact_id]]

\* ------------------------------------------------------------ url helpers
\* ingest._detect_artifact_type
detect_artifact_type(url, requested_type) ==
  IF url[1] = "huggingface.co" /\ Len(url) >= 3 /\ url[2] = "datasets" THEN "dataset"
  ELSE IF \E k \in 1 .. Len(url) : url[k] = "github.com" THEN "code"
  ELSE IF \E k \in 1 .. Len(url) : url[k] = "huggingface.co" THEN "model"
  ELSE requested_type

\* ingest._extract_name_from_url
ingest_extract_name_from_url(url) ==
  IF url[1] = "github.com" /\ Len(url) >= 3 THEN <<url[2], url[3]>>
  ELSE IF \E k \in 1 .. Len(url) : url[k] = "datasets"
  THEN LET idx == CHOOSE k \in 1 .. Len(url) :
                    url[k] = "datasets" /\ \A j \in 1 .. k - 1 : url[j] # "datasets"
       IN IF idx + 2 <= Len(url) THEN <<url[idx + 1], url[idx + 2]>>
          ELSE IF idx + 1 <= Len(url) THEN <<url[idx + 1]>>
          ELSE <<Last(url)>>
  ELSE IF Len(url) >= 2 /\ url[Len(url) - 1] \notin {"huggingface.co", "www.huggingface.co"}
  THEN <<url[Len(url) - 1], Last(url)>>
  ELSE <<Last(url)>>

\* artifacts._extract_name_from_url
upload_extract_name_from_url(url) ==
  IF url[1] = "github.com" /\ Len(url) >= 3 THEN <<url[3]>>
  ELSE <<Last(url)>>

\* ------------------------------------------------------------ middleware
\* mutant: the paths under /health and /logs are recorded as well
record_event_of_every_path(evs, path, method, status, ok) ==
  IF ~ok
  THEN evs
  ELSE Append(evs, [endpoint |-> path, method |-> method, status_code |-> status])

\* mutant: the middleware runs cleanup_old_events on rows that are all past
\* the cutoff before it writes the Event of the request
record_event_after_cleanup(evs, path, method, status, ok) ==
  IF Head(path) \in {"health", "logs"} \/ ~ok
  THEN <<>>
  ELSE <<[endpoint |-> path, method |-> method, status_code |-> status]>>

\* logging_middleware: one Event per request outside /health and /logs;
\* a failed write (ok = FALSE) is swallowed
record_event(evs, path, method, status, ok) ==
  IF Head(path) \in {"health", "logs"} \/ ~ok
  THEN evs
  ELSE Append(evs, [endpoint |-> path, method |-> method, status_code |-> status])

\* an error body; detail names the fixed message of the raising statement
Error(detail) == [kind |-> "error", detail |-> detail]

EventOk(ok) == ok => Len(events) < MaxEvents

\* the response sent to the client, and the middleware's Event for the
\* request; the handler ran from start to end, no request in flight moved
Respond(path, method, status, body, ok) ==
  /\ resp' = [status |-> status, body |-> body]
  /\ events' = record_event(events, path, method, status, ok)
  /\ UNCHANGED inflight

\* an exception that no handler catches: call_next raises inside
\* logging_middleware, which logs and re-raises before it writes an Event;
\* global_exception_handler answers with 500
Raise ==
  /\ resp' = [status |-> 500, body |-> Error("internal")]
  /\ UNCHANGED <<events, inflight>>

\* ------------------------------------------------------------ initial state
Init ==
  /\ artifacts = <<>>
  /\ inflight = NoRequests
  /\ ratings = <<>>
  /\ edges = <<>>
  /\ events = <<>>
  /\ nextId = 1
  /\ resp = [status |-> 200, body |-> [kind |-> "none"]]

\* ------------------------------------------------------------ handlers
\* POST /artifacts/{artifact_type}
CreateArtifact(t, nameIn, url, ok) ==
  /\ nextId <= MaxId
  /\ EventOk(ok)
  /\ LET name == IF nameIn = <<>> THEN <<Last(url)>> ELSE nameIn
         id == generate_uuid
     IN /\ artifacts' = crud_create_artifact(artifacts, id, t, name, url, None)
        /\ nextId' = nextId + 1
        /\ Respond(<<"artifacts", t>>, "POST", 201,
                   [kind |-> "artifact", id |-> id, name |-> name, url |-> url], ok)
  /\ UNCHANGED <<ratings, edges>>

\* the S3 step shared by upload and ingest: on success the presigned URL and
\* the object key are stored; on failure upload falls back to the self-hosted
\* path and ingest leaves the row as it is
\* s3_key = f"artifacts/{artifact.id}/metadata.json"
metadata_key(id) == "artifacts/" \o IdStr(id) \o "/metadata.json"

\* storage.s3.get_download_url: a URL of the object (its signature left out)
get_download_url(key) == "https://trustworthy-model-registry.s3/" \o key

\* f"/artifacts/{artifact_type.value}/{artifact.id}/download"
fallback_download_url(t, id) == "/artifacts/" \o t \o "/" \o IdStr(id) \o "/download"

\* mutant: upload handles a storage failure as ingest does, with pass
s3_step_no_fallback(arts, id, s3ok, fallback) ==
  IF s3ok
  THEN update_artifact_download_url(arts, id, get_download_url(metadata_key(id)),
                                    metadata_key(id))
  ELSE arts

s3_step(arts, id, s3ok, fallback) ==
  IF s3ok
  THEN update_artifact_download_url(arts, id, get_download_url(metadata_key(id)),
                                    metadata_key(id))
  ELSE IF fallback
  THEN update_artifact_download_url(arts, id, fallback_download_url(arts[id].type, id), Null)
  ELSE arts

\* mutant: the treescore is computed before the lineage edges are stored
model_rating_step_treescore_first(arts, id, name, net, found, tie) ==
  LET es == create_lineage_for_artifact(arts, edges, id, name, found)
      treescore == compute_treescore(arts, edges, ratings, id, tie)
  IN /\ Len(es) <= MaxEdges
     /\ Len(ratings) < MaxRatings
     /\ edges' = es
     /\ ratings' = crud_create_rating(ratings, id, net, treescore)

\* lineage, treescore and rating of an accepted model (upload and ingest)
model_rating_step(arts, id, name, net, found, tie) ==
  LET es == create_lineage_for_artifact(arts, edges, id, name, found)
      treescore == compute_treescore(arts, es, ratings, id, tie)
  IN /\ Len(es) <= MaxEdges
     /\ Len(ratings) < MaxRatings
     /\ edges' = es
     /\ ratings' = crud_create_rating(ratings, id, net, treescore)

\* POST /artifact/{artifact_type}  (BASELINE upload)
\* m is the outcome of compute_all_metrics: None when it raised, else net_score
UploadArtifactSpec(t, nameIn, url, m, size, found, tie, s3ok, ok) ==
  /\ EventOk(ok)
  /\ LET name == IF nameIn = <<>> THEN upload_extract_name_from_url(url) ELSE nameIn
         id == generate_uuid
         path == <<"artifact", t>>
         gated == gate_rejects(t = "model", m)
         size_bytes == IF t = "dataset" \/ (t = "model" /\ m = None) THEN 0 ELSE size
         created == crud_create_artifact(artifacts, id, t, name, url,
                                         IF size_bytes > 0 THEN size_bytes ELSE None)
     IN IF gated
        THEN /\ Respond(path, "POST", 424, Error("quality_threshold"), ok)
             /\ UNCHANGED <<artifacts, ratings, edges, nextId>>
        ELSE /\ nextId <= MaxId
             /\ artifacts' = s3_step(created, id, s3ok, TRUE)
             /\ nextId' = nextId + 1
             /\ IF t = "model" /\ m # None
                THEN model_rating_step(created, id, name, m, found, tie)
                ELSE UNCHANGED <<ratings, edges>>
             /\ Respond(path, "POST", 201,
                        [kind |-> "artifact", id |-> id, name |-> name, url |-> url], ok)

\* POST /ingest
IngestArtifact(url, requested_type, m, size, found, tie, s3ok, ok) ==
  /\ EventOk(ok)
  /\ LET t == detect_artifact_type(url, requested_type)
         name == ingest_extract_name_from_url(url)
         id == generate_uuid
         path == <<"ingest">>
         is_model == t \notin {"dataset", "code"}
         gated == gate_rejects(is_model, m)
         size_bytes == IF t = "dataset" \/ (is_model /\ m = None) THEN 0 ELSE size
         created == crud_create_artifact(artifacts, id, t, name, url,
                                         IF size_bytes > 0 THEN size_bytes ELSE None)
     IN IF gated
        THEN /\ Respond(path, "POST", 200, [kind |-> "ingest", success |-> FALSE], ok)
             /\ UNCHANGED <<artifacts, ratings, edges, nextId>>
        ELSE /\ nextId <= MaxId
             /\ artifacts' = s3_step(created, id, s3ok, FALSE)
             /\ nextId' = nextId + 1
             /\ IF t = "model" /\ m # None
                THEN model_rating_step(created, id, name, m, found, tie)
                ELSE UNCHANGED <<ratings, edges>>
             /\ Respond(path, "POST", 200,
                        [kind |-> "ingest", success |-> TRUE, id |-> id], ok)

\* GET /artifacts?limit=&offset=
ListArtifacts(limit, offset, ok) ==
  /\ EventOk(ok)
  /\ Respond(<<"artifacts">>, "GET", 200,
             [kind |-> "list",
              artifacts |-> crud_list_artifacts(artifacts, Null, limit, offset),
              total |-> count_artifacts(artifacts, Null)], ok)
  /\ UNCHANGED <<artifacts, ratings, edges, nextId>>

\* re.compile(query) succeeds and is_safe_regex(query) holds, for the queries
\* drawn below
is_safe_regex(query) == query # "(.*)+"

\* str(e) of the re.error that re.compile(query) raises; Null when it compiles
re_error(query) ==
  CASE query = "[invalid" -> "unterminated character set at position 0"
    [] query = "(" -> "missing ), unterminated subpattern at position 0"
    [] OTHER -> Null

valid_regex(query) == is_safe_regex(query) /\ re_error(query) = Null

\* pattern.search(name), for the queries drawn below
regex_search(query, name) ==
  query = ".*" \/ \E k \in 1 .. Len(name) : name[k] = query

\* matching[:limit]
slice_to(seq, limit) ==
  LET stop == IF limit < 0 THEN Len(seq) + limit ELSE limit
  IN IF stop <= 0 THEN <<>>
     ELSE IF stop >= Len(seq) THEN seq
     ELSE SubSeq(seq, 1, stop)

SEARCH_SCAN_LIMIT == 1000

MAX_RESULTS == 100

\* GET /artifacts/search?query=&artifact_type=&limit=
SearchArtifacts(query, tfilter, limit, ok) ==
  /\ EventOk(ok)
  /\ limit <= MAX_RESULTS
  /\ LET path == <<"artifacts", "search">>
         all_artifacts == crud_list_artifacts(artifacts, tfilter, SEARCH_SCAN_LIMIT, 0)
         matching == SelectSeq(all_artifacts,
                               LAMBDA id : regex_search(query, artifacts[id].name))
     IN IF ~is_safe_regex(query)
        THEN Respond(path, "GET", 400, Error("invalid_regex"), ok)
        ELSE IF re_error(query) # Null
        THEN Respond(path, "GET", 400,
                     Error("Invalid regex pattern: " \o re_error(query)), ok)
        ELSE Respond(path, "GET", 200,
                     [kind |-> "search", query |-> query,
                      results |-> slice_to(matching, limit),
                      total |-> Len(matching)], ok)
  /\ UNCHANGED <<artifacts, ratings, edges, nextId>>

\* GET /artifacts/{artifact_type}/{artifact_id}
GetArtifact(t, id, ok) ==
  /\ EventOk(ok)
  /\ LET found == get_artifact_by_type_and_id(artifacts, t, id)
         path == <<"artifacts", t, IdStr(id)>>
     IN IF found = {}
        THEN Respond(path, "GET", 404, Error("not_found"), ok)
        ELSE Respond(path, "GET", 200,
                     [kind |-> "artifact", id |-> id,
                      name |-> artifacts[id].name, url |-> artifacts[id].url], ok)
  /\ UNCHANGED <<artifacts, ratings, edges, nextId>>

\* DELETE /artifacts/{artifact_type}/{artifact_id}
DeleteArtifact(t, id, ok) ==
  /\ EventOk(ok)
  /\ LET found == get_artifact_by_type_and_id(artifacts, t, id)
         path == <<"artifacts", t, IdStr(id)>>
     IN IF found = {}
        THEN /\ Respond(path, "DELETE", 404, Error("not_found"), ok)
             /\ UNCHANGED <<artifacts, ratings, edges>>
        ELSE /\ artifacts' = crud_delete_artifact_rows(artifacts, id)
             /\ ratings' = cascade_ratings(ratings, id)
             /\ edges' = cascade_edges(edges, id)
             /\ Respond(path, "DELETE", 200, [kind |-> "deleted"], ok)
  /\ UNCHANGED nextId

\* PUT /artifacts/{artifact_type}/{artifact_id}  (BASELINE update)
\* crud.py defines no update_artifact: the call raises AttributeError; no row
\* is changed
UpdateArtifact(t, id, body_id, ok) ==
  /\ EventOk(ok)
  /\ LET found == get_artifact_by_type_and_id(artifacts, t, id)
         path == <<"artifacts", t, IdStr(id)>>
     IN IF found = {}
        THEN Respond(path, "PUT", 404, Error("not_found"), ok)
        ELSE IF body_id # id
        THEN Respond(path, "PUT", 400, Error("id_mismatch"), ok)
        ELSE Raise
  /\ UNCHANGED <<artifacts, ratings, edges, nextId>>

\* mutant: the self-reference test is missing
is_self_reference_never(artifact_id, parent_id) == FALSE

\* "Prevent self-referencing"
is_self_reference(artifact_id, parent_id) == artifact_id = parent_id

\* POST /artifacts/{artifact_type}/{artifact_id}/lineage?parent_id=
AddLineageEdge(t, id, parent_id, ok) ==
  /\ EventOk(ok)
  /\ LET path == <<"artifacts", t, IdStr(id), "lineage">>
     IN IF crud_get_artifact(artifacts, id) = {}
        THEN /\ Respond(path, "POST", 404, Error("child_not_found"), ok)
             /\ UNCHANGED edges
        ELSE IF crud_get_artifact(artifacts, parent_id) = {}
        THEN /\ Respond(path, "POST", 404, Error("parent_not_found"), ok)
             /\ UNCHANGED edges
        ELSE IF is_self_reference(id, parent_id)
        THEN /\ Respond(path, "POST", 400, Error("own_parent"), ok)
             /\ UNCHANGED edges
        ELSE /\ Len(edges) < MaxEdges
             /\ edges' = crud_add_lineage_edge(edges, parent_id, id)
             /\ Respond(path, "POST", 200, [kind |-> "edge"], ok)
  /\ UNCHANGED <<artifacts, ratings, nextId>>

\* POST /artifacts/{artifact_type}/{artifact_id}/rating
\* m is the outcome of compute_all_metrics(url, db, artifact_id)
RateArtifact(t, id, m, tie, ok) ==
  /\ EventOk(ok)
  /\ LET found == get_artifact_by_type_and_id(artifacts, t, id)
         path == <<"artifacts", t, IdStr(id), "rating">>
     IN IF found = {}
        THEN /\ Respond(path, "POST", 404, Error("not_found"), ok)
             /\ UNCHANGED ratings
        ELSE IF m = None
        THEN /\ Raise
             /\ UNCHANGED ratings
        ELSE LET treescore == compute_treescore(artifacts, edges, ratings, id, tie)
             IN /\ Len(ratings) < MaxRatings
                /\ ratings' = crud_create_rating(ratings, id, m, treescore)
                /\ Respond(path, "POST", 200,
                           [kind |-> "rating", net_score |-> m,
                            treescore |-> treescore], ok)
  /\ UNCHANGED <<artifacts, edges, nextId>>

\* GET /artifacts/{artifact_type}/{artifact_id}/rating
GetLatestRating(t, id, ok) ==
  /\ EventOk(ok)
  /\ LET found == get_artifact_by_type_and_id(artifacts, t, id)
         rating == crud_get_latest_rating(ratings, id)
         path == <<"artifacts", t, IdStr(id), "rating">>
     IN IF found = {}
        THEN Respond(path, "GET", 404, Error("not_found"), ok)
        ELSE IF rating = {}
        THEN Respond(path, "GET", 404, Error("not_found"), ok)
        ELSE LET r == CHOOSE x \in rating : TRUE
             IN Respond(path, "GET", 200,
                        [kind |-> "rating", net_score |-> r.net_score,
                         treescore |-> r.treescore], ok)
  /\ UNCHANGED <<artifacts, ratings, edges, nextId>>

\* GET /artifacts/{artifact_type}/{artifact_id}/lineage
\* the row is read by id alone: the type of the path is not looked at
GetArtifactLineage(t, id, ok) ==
  /\ EventOk(ok)
  /\ LET path == <<"artifacts", t, IdStr(id), "lineage">>
     IN IF crud_get_artifact(artifacts, id) = {}
        THEN Respond(path, "GET", 404, Error("not_found"), ok)
        ELSE Respond(path, "GET", 200,
                     [kind |-> "lineage", artifact_id |-> id,
                      parents |-> get_parents(artifacts, edges, id),
                      children |-> get_children(artifacts, edges, id)], ok)
  /\ UNCHANGED <<artifacts, ratings, edges, nextId>>

\* GET /artifacts/{artifact_type}/{artifact_id}/download  (part = "full")
DownloadArtifact(t, id, ok) ==
  /\ EventOk(ok)
  /\ LET path == <<"artifacts", t, IdStr(id), "download">>
     IN IF get_artifact_by_type_and_id(artifacts, t, id) = {}
        THEN Respond(path, "GET", 404, Error("not_found"), ok)
        ELSE Respond(path, "GET", 200,
                     [kind |-> "download", id |-> id,
                      download_url |-> artifacts[id].download_url], ok)
  /\ UNCHANGED <<artifacts, ratings, edges, nextId>>

\* bytes in one MB: (1024 * 1024)
BytesPerMB == 1048576

\* GET /artifacts/{artifact_type}/{artifact_id}/cost
GetArtifactCost(t, id, ok) ==
  /\ EventOk(ok)
  /\ LET path == <<"artifacts", t, IdStr(id), "cost">>
     IN IF crud_get_artifact(artifacts, id) = {}
        THEN Respond(path, "GET", 404, Error("not_found"), ok)
        ELSE LET own_size == Or0(artifacts[id].size_bytes)
                 dependencies == get_all_dependencies(artifacts, edges, id)
                 dep_size == SumSeq([k \in 1 .. Len(dependencies) |->
                                       Or0(artifacts[dependencies[k]].size_bytes)])
             IN Respond(path, "GET", 200,
                        [kind |-> "cost", artifact_id |-> id,
                         own_size_bytes |-> own_size,
                         dependencies_size_bytes |-> dep_size,
                         total_size_bytes |-> own_size + dep_size], ok)
  /\ UNCHANGED <<artifacts, ratings, edges, nextId>>

\* GET /artifact/{artifact_type}/{artifact_id}/cost?dependency=  (BASELINE)
\* sizes are whole numbers of MB; the body maps ids to cost entries, and an
\* entry written later for the same id replaces the earlier one
GetArtifactCostSpec(t, id, dependency, ok) ==
  /\ EventOk(ok)
  /\ LET path == <<"artifact", t, IdStr(id), "cost">>
     IN IF get_artifact_by_type_and_id(artifacts, t, id) = {}
        THEN Respond(path, "GET", 404, Error("not_found"), ok)
        ELSE LET own_size_mb == Or0(artifacts[id].size_bytes) \div BytesPerMB
                 dependencies == get_all_dependencies(artifacts, edges, id)
                 dep_size_mb == [k \in 1 .. Len(dependencies) |->
                                   Or0(artifacts[dependencies[k]].size_bytes) \div BytesPerMB]
                 total_cost == own_size_mb + SumSeq(dep_size_mb)
                 deps == {dependencies[k] : k \in 1 .. Len(dependencies)}
                 result ==
                   IF ~dependency
                   THEN [i \in {id} |-> [standalone_cost |-> None, total_cost |-> own_size_mb]]
                   ELSE [i \in {id} \cup deps |->
                           IF i \in deps
                           THEN [standalone_cost |-> Or0(artifacts[i].size_bytes) \div BytesPerMB,
                                 total_cost |-> Or0(artifacts[i].size_bytes) \div BytesPerMB]
                           ELSE [standalone_cost |-> own_size_mb, total_cost |-> total_cost]]
             IN Respond(path, "GET", 200,
                        [kind |-> "cost_spec", artifact_id |-> id,
                         dependency |-> dependency, result |-> result], ok)
  /\ UNCHANGED <<artifacts, ratings, edges, nextId>>

\* mutant: the ratings table is not among the tables emptied
clear_all_data_keeps_ratings ==
  /\ artifacts' = <<>>
  /\ ratings' = ratings
  /\ edges' = <<>>

\* database.clear_all_data; the events table it empties too is the <<>> that
\* DoReset hands to the middleware
clear_all_data ==
  /\ artifacts' = <<>>
  /\ ratings' = <<>>
  /\ edges' = <<>>

\* POST /reset and DELETE /reset, both through _do_reset; the middleware then
\* records the reset request itself in the emptied events table
DoReset(method, ok) ==
  /\ clear_all_data
  /\ resp' = [status |-> 200, body |-> [kind |-> "reset", success |-> TRUE]]
  /\ events' = record_event(<<>>, <<"reset">>, method, 200, ok)
  /\ UNCHANGED <<nextId, inflight>>

\* _do_reset when clear_all_data raises an exception whose text is exc: the
\* session is closed without a commit, so no row is changed
DoResetFailed(method, exc, ok) ==
  /\ EventOk(ok)
  /\ Respond(<<"reset">>, method, 500, Error("Failed to reset registry: " \o exc), ok)
  /\ UNCHANGED <<artifacts, ratings, edges, nextId>>

ResetPost(ok) == DoReset("POST", ok)

ResetDelete(ok) == DoReset("DELETE", ok)

\* ---- health
\* get_events_last_hour: rows are in the order of their timestamps, so the
\* rows older than one hour are the first `old` rows
get_events_last_hour(evs, old) == SubSeq(evs, old + 1, Len(evs))

event_key(e) == <<e.method, e.endpoint>>

\* get_health_stats over the rows of the last hour
get_health_stats(evs) ==
  LET rows == 1 .. Len(evs)
      keys == {event_key(evs[k]) : k \in rows}
      errs == {k \in rows : evs[k].status_code >= 400}
  IN [request_counts |->
        [key \in keys |-> Cardinality({k \in rows : event_key(evs[k]) = key})],
      error_counts |->
        [key \in {event_key(evs[k]) : k \in errs} |->
           Cardinality({k \in errs : event_key(evs[k]) = key})]]

\* sum(counts.values())
RECURSIVE sum_values(_)
sum_values(counts) ==
  IF DOMAIN counts = {} THEN 0
  ELSE LET key == CHOOSE x \in DOMAIN counts : TRUE
       IN counts[key] + sum_values([x \in DOMAIN counts \ {key} |-> counts[x]])

\* mutant: the thresholds are inclusive
health_status_inclusive(total_errors, total_requests) ==
  IF total_requests = 0 THEN "healthy"
  ELSE IF 2 * total_errors >= total_requests THEN "unhealthy"
  ELSE IF 10 * total_errors >= total_requests THEN "degraded"
  ELSE "healthy"

\* total_errors / total_requests > 0.5 and > 0.1, as inequalities of integers
health_status(total_errors, total_requests) ==
  IF total_requests = 0 THEN "healthy"
  ELSE IF 2 * total_errors > total_requests THEN "unhealthy"
  ELSE IF 10 * total_errors > total_requests THEN "degraded"
  ELSE "healthy"

\* GET /health; the path is under /health, so the middleware writes no Event
GetHealth(old, ok) ==
  /\ old \in 0 .. Len(events)
  /\ LET stats == get_health_stats(get_events_last_hour(events, old))
         total_errors == sum_values(stats.error_counts)
         total_requests == sum_values(stats.request_counts)
     IN Respond(<<"health">>, "GET", 200,
                [kind |-> "health",
                 status |-> health_status(total_errors, total_requests),
                 request_counts |-> stats.request_counts,
                 error_counts |-> stats.error_counts], ok)
  /\ UNCHANGED <<artifacts, ratings, edges, nextId>>

\* GET /logs: the log file's last lines, or a text saying why there are none
GetLogs(ok) ==
  /\ Respond(<<"logs">>, "GET", 200, [kind |-> "logs"], ok)
  /\ UNCHANGED <<artifacts, ratings, edges, nextId>>

\* GET /logs when reading the log file raises an exception whose text is exc
GetLogsFailed(exc, ok) ==
  /\ Respond(<<"logs">>, "GET", 200,
             [kind |-> "logs_error", text |-> "Error reading logs: " \o exc], ok)
  /\ UNCHANGED <<artifacts, ratings, edges, nextId>>

\* ------------------------------------------------------------ specifications
\* The requests of one environment E: the values clients send (types, names,
\* urls) and the outcomes of the outside world (metrics, sizes, detected
\* parent references, rounding of a tie, S3 upload, Event write).
Requests(E) ==
  \/ \E t \in E.types, n \in E.names, u \in E.urls, ok \in E.ok :
       CreateArtifact(t, n, u, ok)
  \/ \E t \in E.types, n \in E.names, u \in E.urls, m \in E.metrics,
        sz \in E.sizes, f \in E.found, tie \in E.ties, s3ok \in E.s3, ok \in E.ok :
       UploadArtifactSpec(t, n, u, m, sz, f, tie, s3ok, ok)
  \/ \E u \in E.urls, m \in E.metrics, sz \in E.sizes, f \in E.found,
        tie \in E.ties, s3ok \in E.s3, ok \in E.ok :
       IngestArtifact(u, "model", m, sz, f, tie, s3ok, ok)
  \/ \E l \in E.limits, o \in E.offsets, ok \in E.ok : ListArtifacts(l, o, ok)
  \/ \E t \in E.types, id \in Ids, ok \in E.ok : GetArtifact(t, id, ok)
  \/ \E t \in E.types, id \in Ids, ok \in E.ok : DeleteArtifact(t, id, ok)
  \/ \E t \in E.types, id \in Ids, b \in Ids, ok \in E.ok : UpdateArtifact(t, id, b, ok)
  \/ \E t \in E.types, id \in Ids, p \in Ids, ok \in E.ok :
       AddLineageEdge(t, id, p, ok)
  \/ \E t \in E.types, id \in Ids, m \in E.metrics, tie \in E.ties, ok \in E.ok :
       RateArtifact(t, id, m, tie, ok)
  \/ \E t \in E.types, id \in Ids, ok \in E.ok : GetLatestRating(t, id, ok)
  \/ \E ok \in E.ok : ResetPost(ok)
  \/ \E ok \in E.ok : ResetDelete(ok)

\* the read-only requests on one artifact beside get and the latest rating
ReadRequests(E) ==
  \/ \E t \in E.types, id \in Ids, ok \in E.ok : GetArtifactLineage(t, id, ok)
  \/ \E t \in E.types, id \in Ids, ok \in E.ok : DownloadArtifact(t, id, ok)
  \/ \E t \in E.types, id \in Ids, ok \in E.ok : GetArtifactCost(t, id, ok)
  \/ \E t \in E.types, id \in Ids, dep \in BOOLEAN, ok \in E.ok :
       GetArtifactCostSpec(t, id, dep, ok)

\* the registry under requests of every kind; the Event write is down
RegistryEnv ==
  [types |-> {"model", "dataset"}, names |-> {<<>>},
   urls |-> {UrlBase, UrlTuned}, metrics |-> {None, 90, 800},
   sizes |-> {0}, found |-> {{}, {RefBase}}, ties |-> {0},
   s3 |-> {FALSE}, ok |-> {FALSE}, limits |-> {100}, offsets |-> {0}]

Next == Requests(RegistryEnv)

Spec == Init /\ [][Next]_vars

\* a registry of models only: metrics that fail and pass the gate, a README
\* that names a base model
ModelsEnv ==
  [types |-> {"model"}, names |-> {<<>>},
   urls |-> {UrlBase, UrlTuned}, metrics |-> {90, 800},
   sizes |-> {0}, found |-> {{RefBase}}, ties |-> {0},
   s3 |-> {FALSE}, ok |-> {FALSE}, limits |-> {100}, offsets |-> {0}]

NextModels == Requests(ModelsEnv)

SpecModels == Init /\ [][NextModels]_vars

\* clients that give a name or leave it out, and two passing net scores
NamedEnv ==
  [types |-> {"model"}, names |-> {<<>>, <<"mine">>},
   urls |-> {UrlBase}, metrics |-> {600, 800},
   sizes |-> {0}, found |-> {{}}, ties |-> {0},
   s3 |-> {FALSE}, ok |-> {FALSE}, limits |-> {100}, offsets |-> {0}]

NextNamed == Requests(NamedEnv)

SpecNamed == Init /\ [][NextNamed]_vars

\* a stored model, as crud_create_artifact leaves it
ModelRow(k) ==
  [type |-> "model", name |-> <<"m", IdStr(k)>>, url |-> UrlBase,
   size_bytes |-> None, download_url |-> Null, s3_key |-> Null]

\* a host whose Event writes succeed or fail, under a few requests of each kind
HostEnv ==
  [types |-> {"model"}, names |-> {<<>>},
   urls |-> {UrlBase}, metrics |-> {800},
   sizes |-> {0}, found |-> {{}}, ties |-> {0},
   s3 |-> {FALSE}, ok |-> BOOLEAN, limits |-> {100}, offsets |-> {0}]

\* the requests under /health and /logs
HostRequests(E) ==
  \/ \E old \in 0 .. MaxEvents, ok \in E.ok : GetHealth(old, ok)
  \/ \E ok \in E.ok : GetLogs(ok)

NextHost == Requests(HostEnv) \/ HostRequests(HostEnv)

SpecHost == Init /\ [][NextHost]_vars

\* every request of the registry and of the host, the Event write up or down
NextEvents ==
  \/ Requests(HostEnv)
  \/ ReadRequests(HostEnv)
  \/ HostRequests(HostEnv)
  \/ \E q \in {"base", "("}, ok \in BOOLEAN : SearchArtifacts(q, Null, 100, ok)
  \/ \E method \in {"POST", "DELETE"}, ok \in BOOLEAN :
       DoResetFailed(method, "database is locked", ok)
  \/ \E ok \in BOOLEAN : GetLogsFailed("disk I/O error", ok)

SpecEvents == Init /\ [][NextEvents]_vars

\* object storage that takes an upload or fails it
StorageEnv ==
  [types |-> {"model", "dataset"}, names |-> {<<>>},
   urls |-> {UrlBase}, metrics |-> {800},
   sizes |-> {0}, found |-> {{}}, ties |-> {0},
   s3 |-> BOOLEAN, ok |-> {FALSE}, limits |-> {100}, offsets |-> {0}]

NextStorage == Requests(StorageEnv)

SpecStorage == Init /\ [][NextStorage]_vars

\* models and datasets asked for under either type, every artifact-scoped
\* request included
TypedEnv ==
  [types |-> {"model", "dataset"}, names |-> {<<>>},
   urls |-> {UrlBase}, metrics |-> {800},
   sizes |-> {0}, found |-> {{}}, ties |-> {0},
   s3 |-> {FALSE}, ok |-> {FALSE}, limits |-> {100}, offsets |-> {0}]

NextTyped == Requests(TypedEnv) \/ ReadRequests(TypedEnv)

SpecTyped == Init /\ [][NextTyped]_vars

\* ingest of a HuggingFace URL and of a URL of another host
IngestEnv ==
  [types |-> {"model"}, names |-> {<<>>},
   urls |-> {UrlBase, UrlOther}, metrics |-> {None, 90, 800},
   sizes |-> {0}, found |-> {{}}, ties |-> {0},
   s3 |-> {FALSE}, ok |-> {FALSE}, limits |-> {100}, offsets |-> {0}]

NextIngest == Requests(IngestEnv)

SpecIngest == Init /\ [][NextIngest]_vars

\* requests during which an internal operation raises; the texts are those of
\* the exceptions
ExceptionTexts == {"database is locked", "disk I/O error"}

FailingRequests ==
  \/ \E method \in {"POST", "DELETE"}, exc \in ExceptionTexts :
       DoResetFailed(method, exc, FALSE)
  \/ \E exc \in ExceptionTexts : GetLogsFailed(exc, FALSE)
  \/ \E q \in {"[invalid", "(", "(.*)+", "base"} : SearchArtifacts(q, Null, 100, FALSE)
  \/ GetLogs(FALSE)

NextErrors == Requests(TypedEnv) \/ FailingRequests

SpecErrors == Init /\ [][NextErrors]_vars

\* ---- lineage graphs over GraphIds models: dependencies and cost
GraphIds == 4

GraphEdges == 4

\* every graph the add-edge requests can build: no self-loop, any other
\* edge; the models in big are of 2 MB, the others of 1 MB
InitGraph ==
  \E es \in SUBSET {pc \in (1 .. GraphIds) \X (1 .. GraphIds) : pc[1] # pc[2]},
     big \in {{}, {1}, 1 .. GraphIds} :
    /\ Cardinality(es) <= GraphEdges
    /\ artifacts = [k \in 1 .. GraphIds |->
                      [ModelRow(k) EXCEPT !.size_bytes =
                         IF k \in big THEN 2 * BytesPerMB ELSE BytesPerMB]]
    /\ edges = LET RECURSIVE rows(_)
                   rows(S) == IF S = {} THEN <<>>
                              ELSE LET e == CHOOSE x \in S : TRUE
                                   IN <<[parent_id |-> e[1], child_id |-> e[2]]>>
                                      \o rows(S \ {e})
               IN rows(es)
    /\ inflight = NoRequests
    /\ ratings = <<>>
    /\ events = <<>>
    /\ nextId = GraphIds + 1
    /\ resp = [status |-> None, body |-> [kind |-> "none"]]

GetAllDependencies(artifact_id) ==
  /\ resp' = [status |-> None,
              body |-> [kind |-> "dependencies", artifact_id |-> artifact_id,
                        all_deps |-> get_all_dependencies(artifacts, edges, artifact_id)]]
  /\ UNCHANGED <<artifacts, ratings, edges, events, nextId, inflight>>

NextGraph ==
  \/ \E id \in DOMAIN artifacts : GetAllDependencies(id)
  \/ \E id \in DOMAIN artifacts : GetArtifactCost("model", id, FALSE)
  \/ \E id \in DOMAIN artifacts, dep \in BOOLEAN :
       GetArtifactCostSpec("model", id, dep, FALSE)

SpecGraph == InitGraph /\ [][NextGraph]_vars

\* ---- passes_quality_threshold applied to drawn arguments
GateNets == {None, 0, 50, 90, 99, 100, 101, 300, 499, 500, 501, 1000}

GateThresholds == {0, 50, 99, 100, 101, 500, 700, 900, 1000}

InitGate ==
  /\ artifacts = <<>>
  /\ inflight = NoRequests
  /\ ratings = <<>>
  /\ edges = <<>>
  /\ events = <<>>
  /\ nextId = 1
  /\ \E n \in GateNets, th \in GateThresholds :
       resp = [status |-> None,
               body |-> [kind |-> "gate_call", net_score |-> n, threshold |-> th]]

PassesQualityThreshold ==
  /\ resp.body.kind = "gate_call"
  /\ resp' = [status |-> None,
              body |-> [kind |-> "gate", net_score |-> resp.body.net_score,
                        threshold |-> resp.body.threshold,
                        passed |-> passes_quality_threshold(resp.body.net_score,
                                                            resp.body.threshold)]]
  /\ UNCHANGED <<artifacts, ratings, edges, events, nextId, inflight>>

NextGate == PassesQualityThreshold

SpecGate == InitGate /\ [][NextGate]_vars

\* ---- compute_treescore applied to a child of NumParents candidate parents
NumParents == 3

TreeScores == {0, 333, 600, 800}

\* the child has the parents ps; parent p has the rating sc[p] (None: no
\* rating), and parent 1 an earlier rating old (None: no earlier rating)
InitTree ==
  \E ps \in SUBSET (1 .. NumParents),
     sc \in [1 .. NumParents -> TreeScores \cup {None}],
     old \in TreeScores \cup {None} :
    LET child == NumParents + 1
        plist == SortedSeq(ps)
        rated == SortedSeq({p \in 1 .. NumParents : sc[p] # None})
        first == IF old = None THEN <<>>
                 ELSE <<[artifact_id |-> 1, net_score |-> old, treescore |-> 0]>>
    IN /\ artifacts = [k \in 1 .. child |-> ModelRow(k)]
       /\ edges = [k \in 1 .. Len(plist) |->
                     [parent_id |-> plist[k], child_id |-> child]]
       /\ inflight = NoRequests
       /\ ratings = first \o
                    [k \in 1 .. Len(rated) |->
                       [artifact_id |-> rated[k], net_score |-> sc[rated[k]],
                        treescore |-> 0]]
       /\ events = <<>>
       /\ nextId = child + 1
       /\ resp = [status |-> None, body |-> [kind |-> "none"]]

ComputeTreescore(artifact_id, tie) ==
  /\ resp' = [status |-> None,
              body |-> [kind |-> "treescore", artifact_id |-> artifact_id,
                        value |-> compute_treescore(artifacts, edges, ratings,
                                                    artifact_id, tie)]]
  /\ UNCHANGED <<artifacts, ratings, edges, events, nextId, inflight>>

NextTree == \E id \in DOMAIN artifacts, tie \in {0, 1} : ComputeTreescore(id, tie)

SpecTree == InitTree /\ [][NextTree]_vars

\* ---- license service: check_compatibility applied to drawn license strings
\* str.lower().strip() on the license strings drawn below
lower_strip(license_str) ==
  CASE license_str = "MIT" -> "mit"
    [] license_str = "Apache 2.0" -> "apache 2.0"
    [] license_str = "GNU GPL v3" -> "gnu gpl v3"
    [] license_str = "Proprietary" -> "proprietary"
    [] license_str = " " -> ""
    [] OTHER -> license_str

license_mappings ==
  { <<"mit license", "mit">>, <<"mit", "mit">>, <<"expat", "mit">>,
    <<"apache 2.0", "apache-2.0">>, <<"apache-2.0", "apache-2.0">>,
    <<"apache license 2.0", "apache-2.0">>,
    <<"apache license, version 2.0", "apache-2.0">>,
    <<"bsd-2-clause", "bsd-2-clause">>, <<"bsd 2-clause", "bsd-2-clause">>,
    <<"simplified bsd", "bsd-2-clause">>,
    <<"bsd-3-clause", "bsd-3-clause">>, <<"bsd 3-clause", "bsd-3-clause">>,
    <<"new bsd", "bsd-3-clause">>, <<"modified bsd", "bsd-3-clause">>,
    <<"gpl-2.0", "gpl-2.0">>, <<"gpl 2.0", "gpl-2.0">>, <<"gnu gpl v2", "gpl-2.0">>,
    <<"gpl-3.0", "gpl-3.0">>, <<"gpl 3.0", "gpl-3.0">>, <<"gnu gpl v3", "gpl-3.0">>,
    <<"gnu general public license v3.0", "gpl-3.0">>,
    <<"agpl-3.0", "agpl-3.0">>, <<"gnu agpl v3", "agpl-3.0">>,
    <<"lgpl-2.1", "lgpl-2.1">>, <<"gnu lgpl v2.1", "lgpl-2.1">>,
    <<"lgpl-3.0", "lgpl-3.0">>, <<"gnu lgpl v3", "lgpl-3.0">>,
    <<"unlicense", "unlicense">>, <<"public domain", "unlicense">>,
    <<"cc0-1.0", "cc0-1.0">>, <<"cc0 1.0", "cc0-1.0">>,
    <<"cc-by-4.0", "cc-by-4.0">>, <<"cc by 4.0", "cc-by-4.0">>,
    <<"cc-by-sa-4.0", "cc-by-sa-4.0">>, <<"cc by-sa 4.0", "cc-by-sa-4.0">>,
    <<"isc", "isc">>, <<"isc license", "isc">>,
    <<"mpl-2.0", "mpl-2.0">>, <<"mozilla public license 2.0", "mpl-2.0">> }

\* mappings.get(key, key)
mappings_get(mappings, key) ==
  IF \E p \in mappings : p[1] = key
    THEN (CHOOSE p \in mappings : p[1] = key)[2]
    ELSE key

\* Null is None; "" is falsy as well
normalize_license(license_str) ==
  IF license_str = Null \/ license_str = ""
    THEN Null
    ELSE mappings_get(license_mappings, lower_strip(license_str))

Permissive == {"mit", "apache-2.0", "bsd-2-clause", "bsd-3-clause", "isc", "unlicense"}

\* LICENSE_COMPATIBILITY.get(license, set())
LICENSE_COMPATIBILITY(license) ==
  CASE license = "mit" -> Permissive \cup {"cc0-1.0"}
    [] license \in {"apache-2.0", "bsd-2-clause", "bsd-3-clause", "isc"} -> Permissive
    [] license \in {"unlicense", "cc0-1.0"} -> Permissive \cup {"cc0-1.0"}
    [] license = "gpl-2.0" -> {"gpl-2.0", "gpl-3.0"}
    [] license = "gpl-3.0" -> {"gpl-3.0"}
    [] license = "agpl-3.0" -> {"agpl-3.0"}
    [] license = "lgpl-2.1" -> {"lgpl-2.1", "lgpl-3.0", "gpl-2.0", "gpl-3.0"}
    [] license = "lgpl-3.0" -> {"lgpl-3.0", "gpl-3.0"}
    [] license = "cc-by-4.0" -> {"cc-by-4.0", "cc-by-sa-4.0"}
    [] license = "cc-by-sa-4.0" -> {"cc-by-sa-4.0"}
    [] OTHER -> {}

Falsy(s) == s = Null \/ s = ""

check_compatibility_forward_only(artifact_license, target_license) ==
  LET norm_artifact == normalize_license(artifact_license)
      norm_target == normalize_license(target_license)
  IN IF Falsy(norm_artifact)
       THEN [compatible |-> FALSE, message |-> "Artifact license unknown"]
     ELSE IF Falsy(norm_target)
       THEN [compatible |-> FALSE, message |-> "Target license unknown"]
     ELSE IF norm_artifact = norm_target
       THEN [compatible |-> TRUE, message |-> "Licenses match: " \o norm_artifact]
     ELSE IF norm_target \in LICENSE_COMPATIBILITY(norm_artifact)
       THEN [compatible |-> TRUE,
             message |-> norm_artifact \o " is compatible with " \o norm_target]
     ELSE [compatible |-> FALSE,
           message |-> norm_artifact \o " may not be compatible with " \o norm_target]

check_compatibility(artifact_license, target_license) ==
  LET norm_artifact == normalize_license(artifact_license)
      norm_target == normalize_license(target_license)
  IN IF Falsy(norm_artifact)
       THEN [compatible |-> FALSE, message |-> "Artifact license unknown"]
     ELSE IF Falsy(norm_target)
       THEN [compatible |-> FALSE, message |-> "Target license unknown"]
     ELSE IF norm_artifact = norm_target
       THEN [compatible |-> TRUE, message |-> "Licenses match: " \o norm_artifact]
     ELSE IF norm_target \in LICENSE_COMPATIBILITY(norm_artifact)
       THEN [compatible |-> TRUE,
             message |-> norm_artifact \o " is compatible with " \o norm_target]
     ELSE IF norm_artifact \in LICENSE_COMPATIBILITY(norm_target)
       THEN [compatible |-> TRUE,
             message |-> norm_target \o " is compatible with " \o norm_artifact]
     ELSE [compatible |-> FALSE,
           message |-> norm_artifact \o " may not be compatible with " \o norm_target]

\* the license strings a check is called with
LicenseStrings ==
  { Null, "", " ", "mit", "MIT", "apache-2.0", "Apache 2.0", "bsd-2-clause",
    "bsd-3-clause", "isc", "unlicense", "cc0-1.0", "gpl-2.0", "gpl-3.0",
    "GNU GPL v3", "agpl-3.0", "lgpl-2.1", "lgpl-3.0", "cc-by-4.0",
    "cc-by-sa-4.0", "mpl-2.0", "proprietary", "Proprietary" }

InitLicense ==
  /\ artifacts = <<>>
  /\ inflight = NoRequests
  /\ ratings = <<>>
  /\ edges = <<>>
  /\ events = <<>>
  /\ nextId = 1
  /\ \E a \in LicenseStrings, t \in LicenseStrings :
       resp = [status |-> None,
               body |-> [kind |-> "license_call", artifact_license |-> a,
                         target_license |-> t]]

CheckCompatibility ==
  /\ resp.body.kind = "license_call"
  /\ resp' = [status |-> None,
              body |-> [kind |-> "license", artifact_license |-> resp.body.artifact_license,
                        target_license |-> resp.body.target_license,
                        result |-> check_compatibility(resp.body.artifact_license,
                                                       resp.body.target_license)]]
  /\ UNCHANGED <<artifacts, ratings, edges, events, nextId, inflight>>

NextLicense == CheckCompatibility

SpecLicense == InitLicense /\ [][NextLicense]_vars

\* ---- GET /health over a table of up to HealthRequests events
HealthRequests == 10

ErrorEvent(k) ==
  IF k % 2 = 1
    THEN [endpoint |-> <<"artifacts", "model", "9">>, method |-> "GET", status_code |-> 404]
    ELSE [endpoint |-> <<"artifacts", "model", "1", "lineage">>, method |-> "POST",
          status_code |-> 400]

OkEvent(k) ==
  IF k % 2 = 1
    THEN [endpoint |-> <<"artifacts">>, method |-> "GET", status_code |-> 200]
    ELSE [endpoint |-> <<"artifacts", "model">>, method |-> "POST", status_code |-> 201]

\* n events, the first e of them errors
InitHealth ==
  /\ artifacts = <<>>
  /\ inflight = NoRequests
  /\ ratings = <<>>
  /\ edges = <<>>
  /\ nextId = 1
  /\ resp = [status |-> None, body |-> [kind |-> "none"]]
  /\ \E n \in 0 .. HealthRequests, e \in 0 .. HealthRequests :
       /\ e <= n
       /\ events = [k \in 1 .. n |-> IF k <= e THEN ErrorEvent(k) ELSE OkEvent(k)]

NextHealth == \E old \in 0 .. HealthRequests : GetHealth(old, FALSE)

SpecHealth == InitHealth /\ [][NextHealth]_vars

\* ---- list and search over a registry of a given size
SearchSizes == {0, 1, 2, 3, 5, 10, 11, 12, 1001}

SearchLimits == {0, 1, 5, 100}

SearchOffsets == {0, 1, 5, 12}

SearchQueries == {".*", "base", "tuned", "[invalid"}

\* n models; those with an odd id are named org/base, the others org/tuned
InitSearch ==
  /\ inflight = NoRequests
  /\ ratings = <<>>
  /\ edges = <<>>
  /\ events = <<>>
  /\ resp = [status |-> None, body |-> [kind |-> "none"]]
  /\ \E n \in SearchSizes :
       /\ nextId = n + 1
       /\ artifacts = [k \in 1 .. n |->
                         [type |-> "model",
                          name |-> IF k % 2 = 1 THEN <<"org", "base">> ELSE <<"org", "tuned">>,
                          url |-> UrlBase, size_bytes |-> None,
                          download_url |-> Null, s3_key |-> Null]]

NextSearch ==
  /\ resp.body.kind = "none"
  /\ \/ \E l \in SearchLimits, o \in SearchOffsets : ListArtifacts(l, o, FALSE)
     \/ \E q \in SearchQueries, t \in {Null, "model", "dataset"}, l \in SearchLimits :
          SearchArtifacts(q, t, l, FALSE)

SpecSearch == InitSearch /\ [][NextSearch]_vars

\* ---- compute_net_score applied to drawn metrics
\* Sub-scores are integers in ten-thousandths (0.3333 is 3333), weights in
\* hundredths; the net score is in thousandths, as every stored score.
WEIGHTS ==
  [ramp_up_time |-> 12, bus_factor |-> 12, license |-> 12, performance_claims |-> 12,
   dataset_and_code_score |-> 10, dataset_quality |-> 10, code_quality |-> 10,
   size_score |-> 10, reproducibility |-> 6, reviewedness |-> 6]

\* the sub-scores that always enter, size_score apart
always_available ==
  {"ramp_up_time", "bus_factor", "license", "performance_claims",
   "dataset_and_code_score", "dataset_quality", "code_quality", "reproducibility"}

NotAvailable == -10000

\* mutant: the weight of reviewedness stays in the denominator when its value
\* is left out
compute_net_score_fixed_denominator(metrics, tie) ==
  LET size_score == metrics.size_score
      size_len == Cardinality(DOMAIN size_score)
      size_num == IF size_len > 0 THEN sum_values(size_score) ELSE 5000
      size_den == IF size_len > 0 THEN size_len ELSE 1
      always_sum ==
        sum_values([key \in always_available |-> WEIGHTS[key] * metrics[key]])
      reviewedness == metrics.reviewedness
      weighted_sum ==
        size_den * always_sum + WEIGHTS.size_score * size_num
          + (IF reviewedness >= 0 THEN size_den * WEIGHTS.reviewedness * reviewedness ELSE 0)
      total_weight ==
        sum_values([key \in always_available |-> WEIGHTS[key]]) + WEIGHTS.size_score
          + WEIGHTS.reviewedness
      den == 10 * size_den * total_weight
      q == weighted_sum \div den
      r == weighted_sum % den
  IN IF 2 * r < den THEN q
     ELSE IF 2 * r > den THEN q + 1
     ELSE q + tie

\* round(weighted_sum / total_weight, 3); size_avg is size_num / size_den, so
\* weighted_sum is kept multiplied by size_den; a quotient that falls exactly
\* between two thousandths goes up or down with the double computed (tie)
compute_net_score(metrics, tie) ==
  LET size_score == metrics.size_score
      size_len == Cardinality(DOMAIN size_score)
      size_num == IF size_len > 0 THEN sum_values(size_score) ELSE 5000
      size_den == IF size_len > 0 THEN size_len ELSE 1
      always_sum ==
        sum_values([key \in always_available |-> WEIGHTS[key] * metrics[key]])
      reviewedness == metrics.reviewedness
      weighted_sum ==
        size_den * always_sum + WEIGHTS.size_score * size_num
          + (IF reviewedness >= 0 THEN size_den * WEIGHTS.reviewedness * reviewedness ELSE 0)
      total_weight ==
        sum_values([key \in always_available |-> WEIGHTS[key]]) + WEIGHTS.size_score
          + (IF reviewedness >= 0 THEN WEIGHTS.reviewedness ELSE 0)
      den == 10 * size_den * total_weight
      q == weighted_sum \div den
      r == weighted_sum % den
  IN IF total_weight > 0
       THEN IF 2 * r < den THEN q
            ELSE IF 2 * r > den THEN q + 1
            ELSE q + tie
       ELSE 0

SubScores == {0, 625, 3333, 5000, 10000}

Devices == {"raspberry_pi", "jetson_nano", "desktop_pc", "aws_server"}

\* the values a key of the metrics dict is drawn from
MetricValues(key) ==
  IF key = "size_score"
    THEN { <<>>, [d \in Devices |-> IF d = "raspberry_pi" THEN 0 ELSE 10000] }
           \cup { [d \in Devices |-> v] : v \in SubScores }
  ELSE IF key = "reviewedness" THEN SubScores \cup {NotAvailable}
  ELSE SubScores

\* every sub-score is v, but for one or two keys that take another value
InitNet ==
  /\ artifacts = <<>>
  /\ inflight = NoRequests
  /\ ratings = <<>>
  /\ edges = <<>>
  /\ events = <<>>
  /\ nextId = 1
  /\ \E v \in SubScores, k1 \in DOMAIN WEIGHTS, k2 \in DOMAIN WEIGHTS :
       \E a \in MetricValues(k1), b \in MetricValues(k2) :
         LET same == [key \in DOMAIN WEIGHTS |->
                        IF key = "size_score" THEN [d \in Devices |-> v] ELSE v]
         IN resp = [status |-> None,
                    body |-> [kind |-> "net_score_call",
                              metrics |-> [[same EXCEPT ![k1] = a] EXCEPT ![k2] = b]]]

ComputeNetScore(tie) ==
  /\ resp.body.kind = "net_score_call"
  /\ resp' = [status |-> None,
              body |-> [kind |-> "net_score", metrics |-> resp.body.metrics,
                        net_score |-> compute_net_score(resp.body.metrics, tie)]]
  /\ UNCHANGED <<artifacts, ratings, edges, events, nextId, inflight>>

NextNet == \E tie \in {0, 1} : ComputeNetScore(tie)

SpecNet == InitNet /\ [][NextNet]_vars

\* ---- POST /ingest taken commit by commit, for server processes on one database
\* metrics, the gate, crud.create_artifact and the optional S3 upload: the
\* artifact row is committed (the download URL touches that row alone)
IngestCreate(c, url, m, found, s3ok, ok) ==
  /\ inflight[c].pc = "idle"
  /\ LET t == detect_artifact_type(url, "model")
         name == ingest_extract_name_from_url(url)
         id == generate_uuid
         is_model == t \notin {"dataset", "code"}
         created == crud_create_artifact(artifacts, id, t, name, url, None)
     IN IF gate_rejects(is_model, m)
        THEN /\ EventOk(ok)
             /\ Respond(<<"ingest">>, "POST", 200, [kind |-> "ingest", success |-> FALSE], ok)
             /\ UNCHANGED <<artifacts, nextId>>
        ELSE /\ nextId <= MaxId
             /\ artifacts' = s3_step(created, id, s3ok, FALSE)
             /\ nextId' = nextId + 1
             /\ inflight' = [inflight EXCEPT ![c] =
                               [pc |-> IF t = "model" /\ m # None THEN "lineage" ELSE "respond",
                                id |-> id, name |-> name, net |-> m, found |-> found,
                                treescore |-> None]]
             /\ UNCHANGED <<resp, events>>
  /\ UNCHANGED <<ratings, edges>>

\* create_lineage_for_artifact: each edge is committed by crud.add_lineage_edge
IngestLineage(c) ==
  /\ inflight[c].pc = "lineage"
  /\ LET es == create_lineage_for_artifact(artifacts, edges, inflight[c].id,
                                           inflight[c].name, inflight[c].found)
     IN /\ Len(es) <= MaxEdges
        /\ edges' = es
  /\ inflight' = [inflight EXCEPT ![c].pc = "treescore"]
  /\ UNCHANGED <<artifacts, ratings, events, nextId, resp>>

\* mutant: the ratings other ingests have still to commit are seen as well
IngestTreescore_sees_pending(c, tie) ==
  /\ inflight[c].pc = "treescore"
  /\ LET other == CHOOSE o \in 1 .. Clients : o # c
         pending == IF inflight[other].pc \in {"lineage", "treescore", "rating"}
                    THEN crud_create_rating(ratings, inflight[other].id,
                                            inflight[other].net, 0)
                    ELSE ratings
     IN inflight' = [inflight EXCEPT
                       ![c].pc = "rating",
                       ![c].treescore = compute_treescore(artifacts, edges, pending,
                                                          inflight[c].id, tie)]
  /\ UNCHANGED <<artifacts, ratings, edges, events, nextId, resp>>

\* treescore = compute_treescore(db, artifact.id): a read of the edges and
\* ratings committed so far
IngestTreescore(c, tie) ==
  /\ inflight[c].pc = "treescore"
  /\ inflight' = [inflight EXCEPT
                    ![c].pc = "rating",
                    ![c].treescore = compute_treescore(artifacts, edges, ratings,
                                                       inflight[c].id, tie)]
  /\ UNCHANGED <<artifacts, ratings, edges, events, nextId, resp>>

\* crud.create_rating with the treescore computed before
IngestRating(c) ==
  /\ inflight[c].pc = "rating"
  /\ Len(ratings) < MaxRatings
  /\ ratings' = crud_create_rating(ratings, inflight[c].id, inflight[c].net,
                                   inflight[c].treescore)
  /\ inflight' = [inflight EXCEPT ![c].pc = "respond"]
  /\ UNCHANGED <<artifacts, edges, events, nextId, resp>>

\* the IngestResponse, and the middleware's Event
IngestRespond(c, ok) ==
  /\ inflight[c].pc = "respond"
  /\ EventOk(ok)
  /\ resp' = [status |-> 200,
              body |-> [kind |-> "ingest", success |-> TRUE, id |-> inflight[c].id]]
  /\ events' = record_event(events, <<"ingest">>, "POST", 200, ok)
  /\ inflight' = [inflight EXCEPT ![c] = Idle]
  /\ UNCHANGED <<artifacts, ratings, edges, nextId>>

\* two clients ingesting a base model and a model tuned from it, and a reader
NextRace ==
  \/ \E c \in 1 .. Clients, u \in {UrlBase, UrlTuned}, m \in {90, 600, 800} :
       IngestCreate(c, u, m, {RefBase}, FALSE, FALSE)
  \/ \E c \in 1 .. Clients : IngestLineage(c)
  \/ \E c \in 1 .. Clients : IngestTreescore(c, 0)
  \/ \E c \in 1 .. Clients : IngestRating(c)
  \/ \E c \in 1 .. Clients : IngestRespond(c, FALSE)
  \/ \E id \in Ids : GetArtifact("model", id, FALSE)
  \/ \E id \in Ids : GetLatestRating("model", id, FALSE)

SpecRace == Init /\ [][NextRace]_vars

\* ---- GET /artifact/model/{artifact_id}/lineage  (BASELINE lineage graph)
\* URLs are the segments after the scheme; a model id or name "org/name" is
\* the sequence of its segments; <<>> stands for None
extract_model_id_from_url(url) ==
  IF ~\E k \in 1 .. Len(url) : url[k] = "huggingface.co" THEN <<>>
  ELSE LET hf_idx == CHOOSE k \in 1 .. Len(url) :
                       url[k] = "huggingface.co" /\ \A j \in 1 .. k - 1 : url[j] # "huggingface.co"
       IN SubSeq(url, hf_idx + 1, Len(url))

\* _extract_base_model_from_config: config is the values of the fields
\* _name_or_path, model_name_or_path, base_model that config.json has, in
\* this order; the first that has a "/" decides
extract_base_model_from_config(config, model_id) ==
  LET ids == {k \in 1 .. Len(config) : Len(config[k]) >= 2}
  IN IF ids = {} THEN {}
     ELSE LET value == config[CHOOSE k \in ids : \A j \in ids : k <= j]
          IN IF value # model_id THEN {value} ELSE {}

\* _extract_base_models_from_metadata: the names found in cardData, tags,
\* model-index and adapter_config.json, without model_id itself
extract_base_models_from_metadata(model_id, found) ==
  {b \in found : b # <<>> /\ b # model_id}

\* name.replace("/", "_")
RECURSIVE generate_pseudo_id(_)
generate_pseudo_id(name) ==
  IF Len(name) = 1 THEN name[1]
  ELSE name[1] \o "_" \o generate_pseudo_id(Tail(name))

\* is name, as a string, inside the string url: of the strings drawn no
\* segment lies inside another, so it is there as a run of whole segments
in_url(name, url) ==
  \E k \in 0 .. Len(url) - Len(name) : SubSeq(url, k + 1, k + Len(name)) = name

\* the first artifact of a list of ids that is among those of matching, as a
\* set: the loop returns at its first hit
first_of(all_artifacts, matching) ==
  LET ids == {k \in 1 .. Len(all_artifacts) : all_artifacts[k] \in matching}
  IN IF ids = {} THEN {}
     ELSE {all_artifacts[CHOOSE k \in ids : \A j \in ids : k <= j]}

\* find_artifact_by_name: the exact name, then the name without its org or
\* a name that ends with it, then a URL that holds either
find_artifact_by_name(arts, all_artifacts, name) ==
  LET short_name == <<Last(name)>>
      exact == first_of(all_artifacts, {a \in DOMAIN arts : arts[a].name = name})
      short == first_of(all_artifacts,
                 {a \in DOMAIN arts :
                    \/ arts[a].name = short_name
                    \/ Len(arts[a].name) >= 2 /\ Last(arts[a].name) = Last(name)})
      by_url == first_of(all_artifacts,
                  {a \in DOMAIN arts :
                     in_url(name, arts[a].url) \/ in_url(short_name, arts[a].url)})
  IN IF exact # {} THEN exact
     ELSE IF short # {} THEN short
     ELSE by_url

\* nodes.append(...) unless the id is in seen_ids
add_node(g, id, name) ==
  IF \E k \in 1 .. Len(g.nodes) : g.nodes[k].artifact_id = id THEN g
  ELSE [g EXCEPT !.nodes = Append(@, [artifact_id |-> id, name |-> name])]

add_edge(g, from, to, relationship) ==
  [g EXCEPT !.edges = Append(@, [from_node_artifact_id |-> from,
                                 to_node_artifact_id |-> to,
                                 relationship |-> relationship])]

\* edges.append(...) unless edge_exists
add_edge_once(g, from, to, relationship) ==
  IF \E k \in 1 .. Len(g.edges) :
       g.edges[k].from_node_artifact_id = from /\ g.edges[k].to_node_artifact_id = to
  THEN g
  ELSE add_edge(g, from, to, relationship)

\* for base_model_name in base_model_names
RECURSIVE add_base_models(_, _, _, _, _, _)
add_base_models(g, arts, all_artifacts, artifact_id, base_model_names, k) ==
  IF k > Len(base_model_names) THEN g
  ELSE LET base_model_name == base_model_names[k]
           base_artifact == find_artifact_by_name(arts, all_artifacts, base_model_name)
           found == CHOOSE a \in base_artifact : TRUE
           base_id == IF base_artifact # {} THEN IdStr(found)
                      ELSE generate_pseudo_id(base_model_name)
           display_name == IF base_artifact # {} THEN arts[found].name ELSE base_model_name
       IN add_base_models(
            add_edge_once(add_node(g, base_id, display_name),
                          base_id, IdStr(artifact_id), "base_model"),
            arts, all_artifacts, artifact_id, base_model_names, k + 1)

\* for parent in parents
RECURSIVE add_parents(_, _, _, _, _)
add_parents(g, arts, artifact_id, parents, k) ==
  IF k > Len(parents) THEN g
  ELSE add_parents(
         add_edge_once(add_node(g, IdStr(parents[k]), arts[parents[k]].name),
                       IdStr(parents[k]), IdStr(artifact_id), "base_model"),
         arts, artifact_id, parents, k + 1)

\* for child in children
RECURSIVE add_children(_, _, _, _, _)
add_children(g, arts, artifact_id, children, k) ==
  IF k > Len(children) THEN g
  ELSE add_children(
         add_edge(add_node(g, IdStr(children[k]), arts[children[k]].name),
                  IdStr(artifact_id), IdStr(children[k]), "derived_model"),
         arts, artifact_id, children, k + 1)

\* for ds_name in datasets
RECURSIVE add_datasets(_, _, _, _, _, _)
add_datasets(g, arts, all_artifacts, artifact_id, datasets, k) ==
  IF k > Len(datasets) THEN g
  ELSE LET ds_name == datasets[k]
           ds_artifact ==
             first_of(all_artifacts,
               {a \in DOMAIN arts :
                  /\ arts[a].type = "dataset"
                  /\ \/ arts[a].name = ds_name
                     \/ in_url(ds_name, arts[a].url)
                     \/ arts[a].name = <<Last(ds_name)>>})
           found == CHOOSE a \in ds_artifact : TRUE
           ds_id == IF ds_artifact # {} THEN IdStr(found) ELSE generate_pseudo_id(ds_name)
           ds_display_name == IF ds_artifact # {} THEN arts[found].name
                              ELSE <<Last(ds_name)>>
       IN add_datasets(
            add_edge_once(add_node(g, ds_id, ds_display_name),
                          ds_id, IdStr(artifact_id), "trained_on"),
            arts, all_artifacts, artifact_id, datasets, k + 1)

\* the orders in which list(set(...)) can enumerate a set of names
Enumerations(S) ==
  {s \in [1 .. Cardinality(S) -> S] : \A i, j \in 1 .. Cardinality(S) : s[i] = s[j] => i = j}

\* config: the base-model fields of config.json ({} when it cannot be read);
\* found: the base models the HuggingFace metadata names; datasets: the
\* datasets it names; base_model_names: list(set(...)) of what was detected
GetModelLineageSpec(id, config, found, datasets, base_model_names, ok) ==
  /\ EventOk(ok)
  /\ LET path == <<"artifact", "model", IdStr(id), "lineage">>
     IN IF crud_get_artifact(artifacts, id) = {}
        THEN Respond(path, "GET", 404, Error("not_found"), ok)
        ELSE LET model_id == extract_model_id_from_url(artifacts[id].url)
                 detected == IF model_id = <<>> THEN {}
                             ELSE extract_base_model_from_config(config, model_id)
                                    \cup extract_base_models_from_metadata(model_id, found)
                 all_artifacts == crud_list_artifacts(artifacts, Null, 1000, 0)
                 g0 == [nodes |-> <<[artifact_id |-> IdStr(id), name |-> artifacts[id].name]>>,
                        edges |-> <<>>]
                 g1 == add_base_models(g0, artifacts, all_artifacts, id, base_model_names, 1)
                 g2 == add_parents(g1, artifacts, id, get_parents(artifacts, edges, id), 1)
                 g3 == add_children(g2, artifacts, id, get_children(artifacts, edges, id), 1)
                 g4 == IF model_id = <<>> THEN g3
                       ELSE add_datasets(g3, artifacts, all_artifacts, id, datasets, 1)
             IN /\ base_model_names \in Enumerations(detected)
                /\ Respond(path, "GET", 200,
                           [kind |-> "lineage_graph", artifact_id |-> IdStr(id),
                            nodes |-> g4.nodes, edges |-> g4.edges], ok)
  /\ UNCHANGED <<artifacts, ratings, edges, nextId>>

\* a model of another organisation that has the short name of RefTuned
RefFork == <<"other", "tuned">>

RefData == <<"org", "data">>

UrlData == <<"huggingface.co", "datasets", "org", "data">>

\* what HuggingFace can report for a model: its base models and datasets
Detected == {{}, {RefBase}, {RefFork}, {RefBase, RefFork}, {RefTuned}}

\* models and a dataset registered by ingest, lineage edges added by hand,
\* and the lineage graph asked for
NextLineageGraph ==
  \/ \E u \in {UrlBase, UrlTuned} : IngestArtifact(u, "model", 800, 0, {}, 0, FALSE, FALSE)
  \/ IngestArtifact(UrlData, "dataset", None, 0, {}, 0, FALSE, FALSE)
  \/ \E id \in Ids, p \in Ids : AddLineageEdge("model", id, p, FALSE)
  \/ \E id \in Ids, config \in {<<>>, <<RefBase>>, <<<<"local">>, RefTuned>>},
        found \in Detected, datasets \in {<<>>, <<RefData>>} :
       \E names \in Enumerations({RefBase, RefFork, RefTuned}) :
         \E n \in 0 .. 3 :
           GetModelLineageSpec(id, config, found, datasets, SubSeq(names, 1, n), FALSE)

SpecLineageGraph == Init /\ [][NextLineageGraph]_vars

\* ---- the license checks of the lineage routes, with tables of their own
\* routes/lineage.py normalize_license: its mappings
routes_license_mappings ==
  { <<"mit license", "mit">>, <<"mit", "mit">>,
    <<"apache 2.0", "apache-2.0">>, <<"apache-2.0", "apache-2.0">>,
    <<"apache license 2.0", "apache-2.0">>,
    <<"bsd-2-clause", "bsd-2-clause">>, <<"bsd-3-clause", "bsd-3-clause">>,
    <<"gpl-2.0", "gpl-2.0">>, <<"gpl-3.0", "gpl-3.0">>, <<"gnu gpl v3", "gpl-3.0">>,
    <<"agpl-3.0", "agpl-3.0">>, <<"lgpl-2.1", "lgpl-2.1">>, <<"lgpl-3.0", "lgpl-3.0">>,
    <<"unlicense", "unlicense">>, <<"cc0-1.0", "unlicense">> }

routes_normalize_license(license_str) ==
  IF license_str = Null \/ license_str = ""
    THEN Null
    ELSE mappings_get(routes_license_mappings, lower_strip(license_str))

\* routes/lineage.py LICENSE_COMPATIBILITY.get(norm_artifact, {norm_artifact})
routes_LICENSE_COMPATIBILITY(norm_artifact) ==
  CASE norm_artifact \in {"mit", "apache-2.0", "bsd-2-clause", "bsd-3-clause"} -> Permissive
    [] norm_artifact = "gpl-2.0" -> {"gpl-2.0", "gpl-3.0"}
    [] norm_artifact = "gpl-3.0" -> {"gpl-3.0"}
    [] norm_artifact = "agpl-3.0" -> {"agpl-3.0"}
    [] norm_artifact = "lgpl-2.1" -> {"lgpl-2.1", "lgpl-3.0", "gpl-2.0", "gpl-3.0"}
    [] norm_artifact = "lgpl-3.0" -> {"lgpl-3.0", "gpl-3.0"}
    [] OTHER -> {norm_artifact}

\* the verdict both endpoints compute from the artifact's license and the
\* license fetched from the repository
routes_is_compatible(artifact_license, github_license) ==
  LET norm_artifact == routes_normalize_license(artifact_license)
      norm_github == routes_normalize_license(github_license)
  IN IF Falsy(norm_artifact) \/ Falsy(norm_github) THEN FALSE
     ELSE \/ norm_github \in routes_LICENSE_COMPATIBILITY(norm_artifact)
          \/ norm_artifact = norm_github

\* POST /license-check; the license in the artifact's metadata and the one
\* fetch_github_license reports are the pair drawn in the initial state
CheckLicenseCompatibility(id, ok) ==
  /\ resp.body.kind = "license_call"
  /\ EventOk(ok)
  /\ LET path == <<"license-check">>
         artifact_license == resp.body.artifact_license
         github_license == resp.body.target_license
         norm_artifact == routes_normalize_license(artifact_license)
         norm_github == routes_normalize_license(github_license)
         is_compatible == routes_is_compatible(artifact_license, github_license)
     IN IF crud_get_artifact(artifacts, id) = {}
        THEN Respond(path, "POST", 404, Error("not_found"), ok)
        ELSE Respond(path, "POST", 200,
                     [kind |-> "license_check", compatible |-> is_compatible,
                      artifact_license |-> artifact_license,
                      github_license |-> github_license,
                      message |-> IF Falsy(norm_artifact) \/ Falsy(norm_github)
                                  THEN "Could not determine one or both licenses"
                                  ELSE IF is_compatible THEN "Licenses are compatible"
                                  ELSE "Licenses may be incompatible"], ok)
  /\ UNCHANGED <<artifacts, ratings, edges, nextId>>

\* POST /artifact/model/{artifact_id}/license-check  (BASELINE): a bare boolean
CheckModelLicenseSpec(id, ok) ==
  /\ resp.body.kind = "license_call"
  /\ EventOk(ok)
  /\ LET path == <<"artifact", "model", IdStr(id), "license-check">>
     IN IF crud_get_artifact(artifacts, id) = {}
        THEN Respond(path, "POST", 404, Error("not_found"), ok)
        ELSE Respond(path, "POST", 200,
                     [kind |-> "license_check_spec",
                      value |-> routes_is_compatible(resp.body.artifact_license,
                                                     resp.body.target_license)], ok)
  /\ UNCHANGED <<artifacts, ratings, edges, nextId>>

\* one registered model; its license and the repository's are drawn
InitLicenseCheck ==
  /\ artifacts = <<ModelRow(1)>>
  /\ inflight = NoRequests
  /\ ratings = <<>>
  /\ edges = <<>>
  /\ events = <<>>
  /\ nextId = 2
  /\ \E a \in LicenseStrings, t \in LicenseStrings :
       resp = [status |-> None,
               body |-> [kind |-> "license_call", artifact_license |-> a,
                         target_license |-> t]]

NextLicenseCheck ==
  \/ \E id \in Ids : CheckLicenseCompatibility(id, FALSE)
  \/ \E id \in Ids : CheckModelLicenseSpec(id, FALSE)

SpecLicenseCheck == InitLicenseCheck /\ [][NextLicenseCheck]_vars

\* ------------------------------------------------------------ claims
AllTypes == {"model", "dataset", "code"}

\* C1: every lineage edge's parent and child and every rating's artifact are
\* artifacts that exist now, after any sequence of create, upload, ingest,
\* add-edge, rate, delete and reset; so a delete has taken the artifact's
\* ratings and the edges at either end with it.
C1_ReferencesExist ==
  /\ \A k \in 1 .. Len(edges) :
       edges[k].parent_id \in DOMAIN artifacts /\ edges[k].child_id \in DOMAIN artifacts
  /\ \A k \in 1 .. Len(ratings) : ratings[k].artifact_id \in DOMAIN artifacts

\* a delete has just succeeded and left another artifact with its rating
C1_Witness ==
  /\ resp.body.kind = "deleted"
  /\ DOMAIN artifacts # {}
  /\ ratings # <<>>

\* C4 as stated: every add-edge request with parent id = child id is answered
\* 400 and leaves the stored edges unchanged.
C4_SelfLoopAlways400 ==
  [][\A t \in AllTypes, id \in Ids, ok \in BOOLEAN :
       AddLineageEdge(t, id, id, ok) => resp'.status = 400 /\ edges' = edges]_vars

\* C4 amended: an add-edge request with parent id = child id never changes the
\* stored edges; it is answered 400 when the artifact exists and 404 (the
\* existence checks come first) when it does not.
C4_SelfLoopRejected ==
  [][\A t \in AllTypes, id \in Ids, ok \in BOOLEAN :
       AddLineageEdge(t, id, id, ok) =>
         /\ edges' = edges
         /\ resp'.status = IF id \in DOMAIN artifacts THEN 400 ELSE 404]_vars

\* a self-loop was rejected with 400 while edges are stored
C4_Witness == resp = [status |-> 400, body |-> Error("own_parent")] /\ edges # <<>>

\* C9: when the computed metrics of a model fail the quality gate, upload
\* answers 424, ingest answers 200 with success = false, and neither creates
\* an artifact, a rating or a lineage edge.
FailsGate(m) == m # None /\ ~passes_quality_threshold(m, 500)

C9_GateCreatesNothing ==
  [][\A m \in {x \in {0, 90, 99, 100, 800} : FailsGate(x)}, n \in {<<>>},
        u \in {UrlBase, UrlTuned}, f \in {{}, {RefBase}},
        tie \in {0}, s3ok \in BOOLEAN, ok \in BOOLEAN :
       /\ UploadArtifactSpec("model", n, u, m, 0, f, tie, s3ok, ok) =>
            /\ resp'.status = 424
            /\ UNCHANGED <<artifacts, ratings, edges>>
       /\ IngestArtifact(u, "model", m, 0, f, tie, s3ok, ok) =>
            /\ resp' = [status |-> 200, body |-> [kind |-> "ingest", success |-> FALSE]]
            /\ UNCHANGED <<artifacts, ratings, edges>>]_vars

\* an ingest was turned away by the gate while the registry holds artifacts
C9_Witness ==
  /\ resp = [status |-> 200, body |-> [kind |-> "ingest", success |-> FALSE]]
  /\ DOMAIN artifacts # {}

\* C5: a get by type and id answers with the name and URL the artifact was
\* created with, and once a delete has succeeded every later get of that id
\* answers 404. In steps: a create or upload stores and returns the given
\* name and URL under a key never used before; a stored name and URL never
\* change; a key that is gone stays gone; a get answers 200 with the stored
\* name and URL or 404 when no row matches; a successful delete removes the row.
C5_GetAfterCreateAndDelete ==
  [][/\ \A id \in DOMAIN artifacts \cap DOMAIN artifacts' :
          artifacts'[id].name = artifacts[id].name /\ artifacts'[id].url = artifacts[id].url
     /\ \A id \in 1 .. nextId - 1 :
          id \notin DOMAIN artifacts => id \notin DOMAIN artifacts'
     /\ \A t \in AllTypes, n \in {<<"mine">>}, u \in {UrlBase, UrlTuned} :
          (\/ CreateArtifact(t, n, u, FALSE)
           \/ \E m \in {None, 600, 800} : UploadArtifactSpec(t, n, u, m, 0, {}, 0, FALSE, FALSE))
          => /\ resp'.body.kind = "artifact" /\ resp'.body.name = n /\ resp'.body.url = u
             /\ resp'.body.id \in DOMAIN artifacts' \ DOMAIN artifacts
             /\ artifacts'[resp'.body.id].name = n
             /\ artifacts'[resp'.body.id].url = u
     /\ \A t \in AllTypes, id \in Ids :
          /\ GetArtifact(t, id, FALSE) =>
               IF id \in DOMAIN artifacts /\ artifacts[id].type = t
               THEN resp' = [status |-> 200,
                             body |-> [kind |-> "artifact", id |-> id,
                                       name |-> artifacts[id].name,
                                       url |-> artifacts[id].url]]
               ELSE resp'.status = 404
          /\ (DeleteArtifact(t, id, FALSE) /\ resp'.status = 200) =>
               id \notin DOMAIN artifacts']_vars

\* a get of a deleted artifact answered 404 while another artifact, created
\* with a name of the client's, is stored
C5_Witness ==
  /\ resp = [status |-> 404, body |-> Error("not_found")]
  /\ nextId = 3
  /\ \E id \in DOMAIN artifacts : artifacts[id].name = <<"mine">>
  /\ \E id \in Ids : id \notin DOMAIN artifacts

\* C7: ratings are append-only. A successful rate request adds one row after
\* the rows there were and keeps them, no step that adds ratings changes an
\* earlier row, and the latest rating of an artifact, as get_latest_rating
\* finds it and as GET .../rating returns it, is the row created last.
LastRated(rs, id) ==
  rs[CHOOSE k \in 1 .. Len(rs) :
       rs[k].artifact_id = id /\ \A j \in k + 1 .. Len(rs) : rs[j].artifact_id # id]

C7_RatingsAppendOnly ==
  [][/\ Len(ratings') > Len(ratings) => SubSeq(ratings', 1, Len(ratings)) = ratings
     /\ \A t \in AllTypes, id \in Ids :
          /\ \A m \in {600, 800} :
               (RateArtifact(t, id, m, 0, FALSE) /\ resp'.status = 200) =>
                 /\ Len(ratings') = Len(ratings) + 1
                 /\ Last(ratings').artifact_id = id /\ Last(ratings').net_score = m
                 /\ crud_get_latest_rating(ratings', id) = {Last(ratings')}
          /\ (GetLatestRating(t, id, FALSE) /\ resp'.status = 200) =>
               /\ resp'.body.net_score = LastRated(ratings, id).net_score
               /\ resp'.body.treescore = LastRated(ratings, id).treescore]_vars

\* an artifact has two ratings with different net scores and the second one
\* was returned
C7_Witness ==
  /\ Len(ratings) = 2
  /\ ratings[1].artifact_id = ratings[2].artifact_id
  /\ ratings[1].net_score = 800 /\ ratings[2].net_score = 600
  /\ resp.status = 200 /\ resp.body.kind = "rating" /\ resp.body.net_score = 600

\* C8 amended: compute_treescore(X) is the mean, rounded to the three
\* decimals of a score, of the latest net scores of the immediate parents of
\* X that have a rating; parents without a rating are in neither the sum nor
\* the count, and the result is 0 when X has no parent or no rated parent.
RECURSIVE SumLatest(_, _)
SumLatest(rs, P) ==
  IF P = {} THEN 0
  ELSE LET p == CHOOSE x \in P : TRUE
       IN LastRated(rs, p).net_score + SumLatest(rs, P \ {p})

RatedParents(x) ==
  {p \in DOMAIN artifacts :
     /\ \E k \in 1 .. Len(edges) : edges[k] = [parent_id |-> p, child_id |-> x]
     /\ \E k \in 1 .. Len(ratings) : ratings[k].artifact_id = p}

C8_TreescoreIsMeanOfRatedParents ==
  resp.body.kind = "treescore" =>
    LET P == RatedParents(resp.body.artifact_id)
        n == Cardinality(P)
        d == resp.body.value * n - SumLatest(ratings, P)
    IN IF P = {} THEN resp.body.value = 0
       ELSE 2 * d <= n /\ 2 * (0 - d) <= n

\* C8 as stated: compute_treescore(X) is the mean itself of the latest net
\* scores of the rated immediate parents of X, and 0 when there is none.
C8_TreescoreIsExactMean ==
  resp.body.kind = "treescore" =>
    LET P == RatedParents(resp.body.artifact_id)
    IN IF P = {} THEN resp.body.value = 0
       ELSE resp.body.value * Cardinality(P) = SumLatest(ratings, P)

\* parents rated 0.8 and 0.6 and a third parent without a rating gave 0.7
C8_Witness ==
  /\ resp.body.kind = "treescore" /\ resp.body.value = 700
  /\ Len(edges) = 3
  /\ Cardinality(RatedParents(resp.body.artifact_id)) = 2
  /\ SumLatest(ratings, RatedParents(resp.body.artifact_id)) = 1400

\* C10: passes_quality_threshold is false exactly when the net score (0 when
\* the metrics have none) is below 0.10, whatever the threshold argument:
\* 0.10 passes, 0.09 does not.
C10_GateIsNetScoreAtLeastTenth ==
  resp.body.kind = "gate" =>
    (resp.body.passed <=> ~(Or0(resp.body.net_score) < 100))

\* a net score of exactly 0.10 passed under the threshold 0.5 callers give
C10_Witness ==
  /\ resp.body.kind = "gate"
  /\ resp.body.net_score = 100 /\ resp.body.threshold = 500
  /\ resp.body.passed

ParentsOf(x) == {edges[k].parent_id : k \in {j \in 1 .. Len(edges) : edges[j].child_id = x}}

\* S and what is reached from S in at most n steps from child to parent
RECURSIVE AncestorsWithin(_, _)
AncestorsWithin(S, n) ==
  IF n = 0 THEN S
  ELSE AncestorsWithin(S \cup UNION {ParentsOf(a) : a \in S}, n - 1)

\* the ancestors of x: its parents, their parents, and so on
Ancestors(x) ==
  IF ParentsOf(x) = {} THEN {}
  ELSE AncestorsWithin(ParentsOf(x), Cardinality(DOMAIN artifacts))

Acyclic == \A x \in DOMAIN artifacts : x \notin Ancestors(x)

Occurrences(s, a) == Cardinality({k \in 1 .. Len(s) : s[k] = a})

RECURSIVE SumSizes(_)
SumSizes(S) ==
  IF S = {} THEN 0
  ELSE LET a == CHOOSE x \in S : TRUE
       IN Or0(artifacts[a].size_bytes) + SumSizes(S \ {a})

\* the diamond on x: two parents of x that share their one parent
Diamond(x) ==
  /\ Len(edges) = 4
  /\ Cardinality(ParentsOf(x)) = 2
  /\ Cardinality(Ancestors(x)) = 3
  /\ \A p \in ParentsOf(x) : ParentsOf(p) = Ancestors(x) \ ParentsOf(x)

\* C2 as stated, for graphs without a cycle: get_all_dependencies(X) holds
\* the ancestors of X and nothing else, each of them exactly once, so that
\* in the diamond the result for D has length 3.
C2_EachAncestorOnce ==
  (resp.body.kind = "dependencies" /\ Acyclic) =>
    LET x == resp.body.artifact_id
        all_deps == resp.body.all_deps
    IN /\ \A a \in DOMAIN artifacts :
            Occurrences(all_deps, a) = IF a \in Ancestors(x) THEN 1 ELSE 0
       /\ Diamond(x) => Len(all_deps) = 3

\* C3 as stated, for graphs without a cycle: the cost of X is its own size
\* plus the size of each of its ancestors counted once, in bytes at the
\* original endpoint and in MB at the BASELINE endpoint with dependency=true.
C3_CostCountsAncestorsOnce ==
  Acyclic =>
    /\ resp.body.kind = "cost" =>
         LET x == resp.body.artifact_id
         IN resp.body.total_size_bytes =
              Or0(artifacts[x].size_bytes) + SumSizes(Ancestors(x))
    /\ (resp.body.kind = "cost_spec" /\ resp.body.dependency) =>
         LET x == resp.body.artifact_id
         IN resp.body.result[x].total_cost * BytesPerMB =
              Or0(artifacts[x].size_bytes) + SumSizes(Ancestors(x))

\* C6 as stated: after a reset, POST or DELETE, the artifact, rating, edge
\* and event stores are all empty and the list reports no artifact, total 0.
C6_ResetEmptiesAllStores ==
  [][\A ok \in BOOLEAN :
       (ResetPost(ok) \/ ResetDelete(ok)) =>
         /\ artifacts' = <<>> /\ ratings' = <<>> /\ edges' = <<>> /\ events' = <<>>
         /\ crud_list_artifacts(artifacts', Null, 100, 0) = <<>>
         /\ count_artifacts(artifacts', Null) = 0]_vars

\* C6 amended: after a reset, POST or DELETE, the artifact, rating and edge
\* stores are empty, the list reports no artifact and total 0, and the event
\* store holds nothing but the Event of the reset request itself, which the
\* middleware writes after the tables were cleared.
C6_ResetLeavesOnlyItsOwnEvent ==
  [][\A ok \in BOOLEAN :
       /\ ResetPost(ok) =>
            /\ artifacts' = <<>> /\ ratings' = <<>> /\ edges' = <<>>
            /\ events' \in {<<>>, <<[endpoint |-> <<"reset">>, method |-> "POST",
                                     status_code |-> 200]>>}
            /\ crud_list_artifacts(artifacts', Null, 100, 0) = <<>>
            /\ count_artifacts(artifacts', Null) = 0
       /\ ResetDelete(ok) =>
            /\ artifacts' = <<>> /\ ratings' = <<>> /\ edges' = <<>>
            /\ events' \in {<<>>, <<[endpoint |-> <<"reset">>, method |-> "DELETE",
                                     status_code |-> 200]>>}
            /\ crud_list_artifacts(artifacts', Null, 100, 0) = <<>>
            /\ count_artifacts(artifacts', Null) = 0]_vars

\* a reset after two creations left the stores empty but for its own Event
C6_Witness ==
  /\ resp.body.kind = "reset"
  /\ nextId = 3
  /\ artifacts = <<>> /\ ratings = <<>> /\ edges = <<>>
  /\ events = <<[endpoint |-> <<"reset">>, method |-> "DELETE", status_code |-> 200]>>

\* C11: after a BASELINE upload has answered success the artifact it created
\* has a download_url that is not empty: the URL of the stored object, with
\* the storage key set, when the storage upload succeeded, and the
\* self-hosted path /artifacts/{type}/{id}/download, with no storage key,
\* when it failed.
C11_UploadAlwaysHasDownloadUrl ==
  [][\A t \in AllTypes, m \in {None, 800}, s3ok \in BOOLEAN :
       (UploadArtifactSpec(t, <<>>, UrlBase, m, 0, {}, 0, s3ok, FALSE) /\ resp'.status = 201) =>
         LET a == artifacts'[resp'.body.id]
         IN /\ a.download_url # Null /\ a.download_url # ""
            /\ (a.s3_key # Null) <=> s3ok
            /\ ~s3ok => a.download_url =
                          "/artifacts/" \o t \o "/" \o ToString(resp'.body.id) \o "/download"]_vars

\* an upload whose storage upload failed was answered 201 and left the
\* self-hosted path, while an earlier artifact has a storage key
C11_Witness ==
  /\ resp.status = 201
  /\ resp.body.id = 2
  /\ 1 \in DOMAIN artifacts /\ artifacts[1].s3_key # Null
  /\ 2 \in DOMAIN artifacts /\ artifacts[2].s3_key = Null
  /\ artifacts[2].download_url = "/artifacts/dataset/2/download"

\* C12 as stated: a get, delete, download, rate, latest-rating, lineage,
\* add-edge or cost request under a path type that is not the stored type of
\* the artifact with that id is answered 404 and changes nothing.
C12_TypeMismatchIsNotFound ==
  [][\A t \in AllTypes, id \in DOMAIN artifacts :
       artifacts[id].type # t =>
         ((\/ GetArtifact(t, id, FALSE)
           \/ DeleteArtifact(t, id, FALSE)
           \/ DownloadArtifact(t, id, FALSE)
           \/ RateArtifact(t, id, 800, 0, FALSE)
           \/ GetLatestRating(t, id, FALSE)
           \/ GetArtifactLineage(t, id, FALSE)
           \/ \E p \in Ids : AddLineageEdge(t, id, p, FALSE)
           \/ GetArtifactCost(t, id, FALSE))
          => resp'.status = 404 /\ UNCHANGED <<artifacts, ratings, edges>>)]_vars

\* C13 as stated: an ingest of a URL that is neither a HuggingFace URL nor a
\* GitHub URL is answered 400 and persists no artifact, rating or edge.
IsHuggingFaceOrGitHub(url) ==
  \E k \in 1 .. Len(url) : url[k] \in {"huggingface.co", "www.huggingface.co", "github.com"}

C13_IngestRejectsOtherUrls ==
  [][\A u \in {UrlBase, UrlTuned, UrlOther}, m \in {None, 90, 800} :
       (~IsHuggingFaceOrGitHub(u) /\ IngestArtifact(u, "model", m, 0, {}, 0, FALSE, FALSE)) =>
         resp'.status = 400 /\ UNCHANGED <<artifacts, ratings, edges>>]_vars

\* the identifiers normalize_license maps known spellings onto
CanonicalLicenses == {p[2] : p \in license_mappings}

Unrecognized(license_str) ==
  Falsy(license_str) \/ normalize_license(license_str) \notin CanonicalLicenses

\* C14 as stated: a license check whose artifact license or target license is
\* absent or is not a recognized canonical identifier reports incompatible,
\* with a message, and never compatible.
C14_UnknownLicenseIsIncompatible ==
  (resp.body.kind = "license"
     /\ (Unrecognized(resp.body.artifact_license) \/ Unrecognized(resp.body.target_license)))
    => (~resp.body.result.compatible /\ resp.body.result.message # "")

\* C15: check_compatibility gives (a, b) and (b, a) the same verdict; every
\* two of mit, apache-2.0, bsd-2-clause, bsd-3-clause and isc are compatible
\* in either order and gpl-3.0 with mit is incompatible in either order.
C15_CompatibilityIsSymmetric ==
  resp.body.kind = "license" =>
    LET a == resp.body.artifact_license
        b == resp.body.target_license
        five == {"mit", "apache-2.0", "bsd-2-clause", "bsd-3-clause", "isc"}
    IN /\ resp.body.result.compatible = check_compatibility(b, a).compatible
       /\ (normalize_license(a) \in five /\ normalize_license(b) \in five)
            => resp.body.result.compatible
       /\ {normalize_license(a), normalize_license(b)} = {"gpl-3.0", "mit"}
            => ~resp.body.result.compatible

\* gpl-3.0 checked against gpl-2.0: compatible only through the reverse lookup
C15_Witness ==
  /\ resp.body.kind = "license"
  /\ resp.body.artifact_license = "gpl-3.0"
  /\ resp.body.target_license = "gpl-2.0"
  /\ resp.body.result.compatible
  /\ resp.body.result.message = "gpl-2.0 is compatible with gpl-3.0"

\* the ratings of one artifact, oldest first
RatingsOf(rs, id) == SelectSeq(rs, LAMBDA r : r.artifact_id = id)

\* C16 as stated: GET rating leaves the ratings as they are, and a step that
\* adds a rating is a successful POST rating, which adds exactly one.
C16_OnlyPostRatingAddsRating ==
  [][/\ \A id \in Ids, ok \in BOOLEAN :
          GetLatestRating("model", id, ok) => UNCHANGED ratings
     /\ Len(ratings') > Len(ratings) =>
          /\ \E id \in Ids, ok \in BOOLEAN : RateArtifact("model", id, 800, 0, ok)
          /\ resp'.status = 200
          /\ Len(ratings') = Len(ratings) + 1]_vars

\* C16 amended: GET rating answers 404 for a missing artifact and for an
\* artifact without rating, else 200 with the latest stored rating, and leaves
\* the ratings unchanged; POST rating adds exactly one rating, of the artifact
\* rated, when it answers 200 and none otherwise; the other steps that add a
\* rating are a model upload and a model ingest, one rating each.
C16_GetReadsPostAddsOne ==
  [][/\ \A id \in Ids, ok \in BOOLEAN :
          /\ GetLatestRating("model", id, ok) =>
               /\ UNCHANGED <<artifacts, ratings, edges>>
               /\ resp'.status = IF id \in DOMAIN artifacts /\ RatingsOf(ratings, id) # <<>>
                                   THEN 200 ELSE 404
               /\ resp'.status = 200 =>
                    resp'.body.net_score = Last(RatingsOf(ratings, id)).net_score
          /\ RateArtifact("model", id, 800, 0, ok) =>
               IF resp'.status = 200
                 THEN /\ SubSeq(ratings', 1, Len(ratings)) = ratings
                      /\ Len(ratings') = Len(ratings) + 1
                      /\ Last(ratings').artifact_id = id
                 ELSE UNCHANGED ratings
     /\ Len(ratings') > Len(ratings) =>
          /\ Len(ratings') = Len(ratings) + 1
          /\ \/ resp'.status = 200 /\ resp'.body.kind = "rating"
             \/ resp'.status = 201 /\ resp'.body.kind = "artifact"
             \/ resp'.status = 200 /\ resp'.body.kind = "ingest" /\ resp'.body.success]_vars

\* GET rating has returned the latest of the two ratings of artifact 1
C16_Witness ==
  /\ Len(RatingsOf(ratings, 1)) = 2
  /\ resp.status = 200 /\ resp.body.kind = "rating"
  /\ events = << [endpoint |-> <<"artifacts", "model", "1", "rating">>,
                  method |-> "GET", status_code |-> 200] >>

\* the events of the last hour when the first old events are older
ErrorsSince(old) ==
  Cardinality({k \in old + 1 .. Len(events) : events[k].status_code >= 400})

\* C18: the status of GET /health is unhealthy exactly when more than half of
\* the requests of the last hour were errors, degraded exactly when more than
\* a tenth and at most half were, and healthy otherwise, also with no request
\* at all (of 10 requests: 0 and 1 errors healthy, 2 and 5 degraded, 6 unhealthy).
C18_HealthStatusThresholds ==
  resp.body.kind = "health" =>
    LET errors == sum_values(resp.body.error_counts)
        requests == sum_values(resp.body.request_counts)
        status == resp.body.status
    IN /\ \E old \in 0 .. Len(events) :
            requests = Len(events) - old /\ errors = ErrorsSince(old)
       /\ status \in {"healthy", "degraded", "unhealthy"}
       /\ status = "unhealthy" <=> 2 * errors > requests
       /\ status = "degraded" <=> (10 * errors > requests /\ 2 * errors <= requests)
       /\ requests = 0 => status = "healthy"
       /\ requests = 10 =>
            /\ errors \in {0, 1} => status = "healthy"
            /\ errors \in {2, 5} => status = "degraded"
            /\ errors = 6 => status = "unhealthy"

\* one error in ten requests of the last hour: healthy
C18_Witness ==
  /\ resp.body.kind = "health"
  /\ sum_values(resp.body.request_counts) = 10
  /\ sum_values(resp.body.error_counts) = 1
  /\ resp.body.status = "healthy"

\* the requests of the host whose Event write succeeds, and those whose Event
\* write fails
HostOkEnv == [HostEnv EXCEPT !.ok = {TRUE}]

HostFailEnv == [HostEnv EXCEPT !.ok = {FALSE}]

Statuses == {200, 201, 400, 404, 409, 500}

\* the Event the middleware wrote last is the one of this request
LastEventIs(path, method) ==
  /\ events' # <<>>
  /\ Last(events') = [endpoint |-> path, method |-> method, status_code |-> resp'.status]

Min(a, b) == IF a < b THEN a ELSE b

Max(a, b) == IF a > b THEN a ELSE b

\* the stored artifacts whose name the query matches
Matching(query) == {i \in DOMAIN artifacts : regex_search(query, artifacts[i].name)}

\* C19 as stated: with N stored artifacts a list with limit L and offset O
\* returns min(L, max(0, N - O)) artifacts and total N; a search with M
\* matching artifacts returns min(limit, M) results and total M.
C19_ListAndSearchTotals ==
  [][/\ \A l \in SearchLimits, o \in SearchOffsets :
          ListArtifacts(l, o, FALSE) =>
            /\ Len(resp'.body.artifacts) = Min(l, Max(0, Len(artifacts) - o))
            /\ resp'.body.total = Len(artifacts)
     /\ \A q \in {".*", "base", "tuned"}, l \in SearchLimits :
          SearchArtifacts(q, Null, l, FALSE) =>
            /\ resp'.body.total = Cardinality(Matching(q))
            /\ Len(resp'.body.results) = Min(l, Cardinality(Matching(q)))]_vars

\* the sub-scores that enter the net score of the metrics m, and four times
\* the value of each (the size sub-score is the mean over the four devices)
Included(m) ==
  always_available \cup {"size_score"}
    \cup (IF m.reviewedness >= 0 THEN {"reviewedness"} ELSE {})

SubScore4(m, key) ==
  IF key # "size_score" THEN 4 * m[key]
  ELSE IF DOMAIN m.size_score = {} THEN 4 * 5000
  ELSE sum_values(m.size_score)

IncludedWeight(m) == sum_values([key \in Included(m) |-> WEIGHTS[key]])

Abs(x) == IF x < 0 THEN -x ELSE x

\* C20 as stated: when every included sub-score equals v the net score equals
\* v, and the net score lies in [0, 1].
C20_NetScoreOfEqualScoresIsExact ==
  resp.body.kind = "net_score" =>
    LET m == resp.body.metrics
    IN /\ \A v \in SubScores :
            (\A key \in Included(m) : SubScore4(m, key) = 4 * v)
              => 10 * resp.body.net_score = v
       /\ resp.body.net_score \in 0 .. 1000

\* C20 amended: compute_net_score is the weighted mean of the included
\* sub-scores rounded to three decimals: the always-included sub-scores weigh
\* 0.94 together, reviewedness (0.06) enters numerator and denominator only
\* when it is >= 0; when every included sub-score equals v the net score is v
\* rounded to three decimals (all 1.0 gives 1.0, all 0.5 without reviewedness
\* gives 0.5, all 0.3333 gives 0.333), and it lies in [0, 1].
C20_NetScoreIsRoundedWeightedMean ==
  resp.body.kind = "net_score" =>
    LET m == resp.body.metrics
        net == resp.body.net_score
        weight == IncludedWeight(m)
        sum4 == sum_values([key \in Included(m) |-> WEIGHTS[key] * SubScore4(m, key)])
    IN /\ weight = IF m.reviewedness >= 0 THEN 100 ELSE 94
       /\ 2 * Abs(40 * weight * net - sum4) <= 40 * weight
       /\ \A v \in SubScores :
            (\A key \in Included(m) : SubScore4(m, key) = 4 * v)
              => /\ 2 * Abs(10 * net - v) <= 10
                 /\ v % 10 = 0 => 10 * net = v
       /\ net \in 0 .. 1000

\* every sub-score is 0.5 and reviewedness is not available: 0.5
C20_Witness ==
  /\ resp.body.kind = "net_score"
  /\ resp.body.metrics.reviewedness = NotAvailable
  /\ \A key \in always_available : resp.body.metrics[key] = 5000
  /\ resp.body.metrics.size_score = [d \in Devices |-> 5000]
  /\ resp.body.net_score = 500

\* the responses an error path can send: a status with the fixed generic
\* message, or with a message that embeds the text of the exception
ErrorResponses(prefix, texts) ==
  { [status |-> st, body |-> Error(d)] :
      st \in {400, 500},
      d \in {"internal", "invalid_regex"} \cup {prefix \o t : t \in texts} }

\* C21 as stated: the response of a request during which an internal
\* operation raises does not depend on the text of the exception: a failing
\* reset answers the same for every text, a query that does not compile
\* answers the same whatever the compile error says, and so does a failing
\* read of the log file.
C21_ErrorBodyIndependentOfExceptionText ==
  /\ \E r \in ErrorResponses("Failed to reset registry: ", ExceptionTexts) :
       \A exc \in ExceptionTexts : ENABLED (DoResetFailed("POST", exc, FALSE) /\ resp' = r)
  /\ \E r \in ErrorResponses("Invalid regex pattern: ", {re_error("[invalid"), re_error("(")}) :
       \A q \in {"[invalid", "("} : ENABLED (SearchArtifacts(q, Null, 100, FALSE) /\ resp' = r)
  /\ \E text \in {"Error reading logs"} \cup {"Error reading logs: " \o t : t \in ExceptionTexts} :
       \A exc \in ExceptionTexts : ENABLED (GetLogsFailed(exc, FALSE) /\ resp'.body.text = text)

\* C22 as stated: in every reachable state the stored lineage edges form no
\* directed cycle; in particular no two artifacts are each the parent of
\* the other.
C22_LineageIsAcyclic ==
  /\ Acyclic
  /\ \A a \in DOMAIN artifacts, b \in DOMAIN artifacts :
       ~(a \in ParentsOf(b) /\ b \in ParentsOf(a))

\* C23: in one ingest or upload of an accepted model the lineage edges of the
\* new artifact are stored before its treescore is computed: the treescore of
\* the rating the request stores is the rounded mean of the latest net scores
\* of the rated parents the artifact has once the request's edges exist.
StoredModel ==
  /\ nextId' = nextId + 1
  /\ Len(ratings') = Len(ratings) + 1
  /\ ratings'[Len(ratings')].artifact_id = nextId

C23_EdgesBeforeTreescore ==
  [][StoredModel =>
       LET x == nextId
           P == {p \in DOMAIN artifacts' :
                   /\ \E k \in 1 .. Len(edges') :
                        edges'[k] = [parent_id |-> p, child_id |-> x]
                   /\ \E k \in 1 .. Len(ratings) : ratings[k].artifact_id = p}
           n == Cardinality(P)
           d == ratings'[Len(ratings')].treescore * n - SumLatest(ratings, P)
       IN /\ \A k \in 1 .. Len(edges) : edges[k].child_id # x
          /\ IF P = {} THEN ratings'[Len(ratings')].treescore = 0
             ELSE 2 * d <= n /\ 2 * (0 - d) <= n]_vars

\* the newest rating carries the net score of the parent its artifact was
\* linked to by the same request
C23_Witness ==
  /\ ratings # <<>>
  /\ LET r == ratings[Len(ratings)]
     IN /\ r.artifact_id = nextId - 1
        /\ r.treescore = 800
        /\ \E k \in 1 .. Len(edges) : edges[k].child_id = r.artifact_id
        /\ resp.body.kind \in {"ingest", "artifact"}

RECURSIVE SumParents(_)
SumParents(S) ==
  IF S = {} THEN 0
  ELSE LET a == CHOOSE x \in S : TRUE
       IN Cardinality(ParentsOf(a)) + SumParents(S \ {a})

C25_DependenciesTerminateExpandOnce ==
  resp.body.kind = "dependencies" =>
    LET x == resp.body.artifact_id
        all_deps == resp.body.all_deps
    IN /\ {all_deps[k] : k \in 1 .. Len(all_deps)} = Ancestors(x)
       /\ Len(all_deps) = SumParents({x} \cup Ancestors(x))

\* the dependencies of an artifact on a directed cycle of three were returned
C25_Witness ==
  /\ resp.body.kind = "dependencies"
  /\ LET x == resp.body.artifact_id
     IN /\ x \in Ancestors(x)
        /\ Cardinality(Ancestors(x)) >= 3
        /\ x \notin ParentsOf(x)
        /\ \A p \in ParentsOf(x) : x \notin ParentsOf(p)
        /\ Len(resp.body.all_deps) >= 3

\* C26: nothing but a reset removes an Event: in every step that is not a
\* reset the events stored before the step are still stored after it, in
\* their order, so their number never decreases.
C26_OnlyResetRemovesEvents ==
  [][(\A method \in {"POST", "DELETE"}, ok \in BOOLEAN : ~DoReset(method, ok)) =>
       /\ Len(events') >= Len(events)
       /\ SubSeq(events', 1, Len(events)) = events]_vars

\* the Event of a create is still stored after the artifact was deleted by a
\* later request
C26_Witness ==
  /\ Len(events) = 1
  /\ events[1].method = "POST" /\ events[1].status_code = 201
  /\ resp.body.kind = "deleted"
  /\ DOMAIN artifacts = {}

\* C27 as stated: whatever the registry holds and whatever base models are
\* detected, the BASELINE lineage graph of an artifact has no edge from the
\* artifact to itself.
C27_NoSelfEdgeInLineageGraph ==
  resp.body.kind = "lineage_graph" =>
    \A k \in 1 .. Len(resp.body.edges) :
      ~(/\ resp.body.edges[k].from_node_artifact_id = resp.body.artifact_id
        /\ resp.body.edges[k].to_node_artifact_id = resp.body.artifact_id)

\* C28: lineage is linked automatically only while the child is registered.
\* A request that registers an artifact adds an edge only when it stores a
\* model with its rating whose detected parent (RefBase here) is the name of
\* an artifact registered before: the edge goes from the newest such artifact
\* to the new one. No edge is added towards an artifact registered earlier,
\* so a parent registered after its child stays unlinked.
C28_LinkedOnlyAtChildIngest ==
  [][nextId' = nextId + 1 =>
       LET named == {p \in DOMAIN artifacts : artifacts[p].name = RefBase}
           newest == CHOOSE p \in named : \A q \in named : q <= p
       IN IF StoredModel /\ artifacts'[nextId].name # RefBase /\ named # {}
          THEN edges' = Append(edges, [parent_id |-> newest, child_id |-> nextId])
          ELSE edges' = edges]_vars

\* the tuned model was ingested before its base model: both are registered
\* and rated, and no edge joins them
C28_Witness ==
  /\ DOMAIN artifacts = {1, 2}
  /\ artifacts[1].name = RefTuned /\ artifacts[2].name = RefBase
  /\ Len(ratings) = 2
  /\ edges = <<>>
  /\ resp = [status |-> 200, body |-> [kind |-> "ingest", success |-> TRUE, id |-> 2]]

\* C29 as stated: whatever the stored edges, the list get_all_dependencies
\* returns for X does not hold X, and the cost endpoints add the size of X
\* once only: the dependency total is the sum over the listed artifacts
\* other than X.
SizesOfOthers(x) ==
  LET deps == get_all_dependencies(artifacts, edges, x)
      others == SelectSeq(deps, LAMBDA d : d # x)
  IN SumSeq([k \in 1 .. Len(others) |-> Or0(artifacts[others[k]].size_bytes)])

C29_DependenciesExcludeSelf ==
  /\ resp.body.kind = "dependencies" =>
       \A k \in 1 .. Len(resp.body.all_deps) :
         resp.body.all_deps[k] # resp.body.artifact_id
  /\ resp.body.kind = "cost" =>
       resp.body.dependencies_size_bytes = SizesOfOthers(resp.body.artifact_id)
  /\ (resp.body.kind = "cost_spec" /\ resp.body.dependency) =>
       LET x == resp.body.artifact_id
       IN resp.body.result[x].total_cost * BytesPerMB =
            Or0(artifacts[x].size_bytes) + SizesOfOthers(x)

\* C30 as stated: for every pair of artifact license and repository license
\* the verdict of POST /license-check and of the BASELINE license check is
\* the verdict check_compatibility of the license service gives for the pair.
C30_RouteVerdictIsServiceVerdict ==
  [][resp.body.kind = "license_call" =>
       LET service == check_compatibility(resp.body.artifact_license,
                                          resp.body.target_license).compatible
       IN /\ resp'.body.kind = "license_check" => resp'.body.compatible = service
          /\ resp'.body.kind = "license_check_spec" => resp'.body.value = service]_vars

====
